---- MODULE Spec2Model ----
(***************************************************************************)
(* State-machine model of the MovieActor game engine (js/MovieActor.js)    *)
(* over a small fixed IMDB-style store.  Text is modelled as sequences of  *)
(* one-character strings; SQL statements are modelled as set/sequence      *)
(* comprehensions over the store's tables.                                 *)
(***************************************************************************)
EXTENDS Integers, Sequences, FiniteSets, TLC

(***************************************************************************)
(* Bounds                                                                  *)
(***************************************************************************)
\* options.roundsToWin of the constructor (5 by default; kept small here)
RoundsToWin == 2

(***************************************************************************)
(* Game constants                                                          *)
(***************************************************************************)
DIFFICULTY == {"easy", "medium", "hard"}

HUMAN == "human"
COMPUTER == "computer"
PLAYER == {HUMAN, COMPUTER}

MOVIE == "movie"
ACTOR == "actor"

IDLE == "idle"
PLAYING == "playing"
CHALLENGE_PENDING == "challenge_pending"
ROUND_OVER == "round_over"
GAME_OVER == "game_over"
GAME_STATE == {IDLE, PLAYING, CHALLENGE_PENDING, ROUND_OVER, GAME_OVER}

\* JavaScript null
NULL == "null"

\* variant: hard looks no deeper into the billing than easy
DIFFICULTY_CONFIG_HardTop3 ==
    [d \in DIFFICULTY |->
        CASE d = "easy" ->
                [maxOrdering |-> 3, minYear |-> 1980, minVotes |-> 100000,
                 minVotesForStart |-> 200000, minActorMovies |-> 15]
          [] d = "medium" ->
                [maxOrdering |-> 10, minYear |-> 1960, minVotes |-> 10000,
                 minVotesForStart |-> 50000, minActorMovies |-> 8]
          [] d = "hard" ->
                [maxOrdering |-> 3, minYear |-> 1900, minVotes |-> 1000,
                 minVotesForStart |-> 5000, minActorMovies |-> 3]]

DIFFICULTY_CONFIG ==
    [d \in DIFFICULTY |->
        CASE d = "easy" ->
                [maxOrdering |-> 3, minYear |-> 1980, minVotes |-> 100000,
                 minVotesForStart |-> 200000, minActorMovies |-> 15]
          [] d = "medium" ->
                [maxOrdering |-> 10, minYear |-> 1960, minVotes |-> 10000,
                 minVotesForStart |-> 50000, minActorMovies |-> 8]
          [] d = "hard" ->
                [maxOrdering |-> 999, minYear |-> 1900, minVotes |-> 1000,
                 minVotesForStart |-> 5000, minActorMovies |-> 3]]

(***************************************************************************)
(* The store: a small read-only database with the tables the engine reads. *)
(***************************************************************************)
\* name_basics: nconst -> primary_name
name_basics ==
    [n \in {"a1", "a2", "a3", "a4", "a5", "a6"} |->
        CASE n = "a1" -> <<"A", "b", "e", " ", "C", "o", "x">>
          [] n = "a2" -> <<"A", "b", "e", " ", "D", "i", "x">>
          [] n = "a3" -> <<"B", "o", "-", "L", "i">>
          [] n = "a4" -> <<"C", "y", " ", "N", "g">>
          [] n = "a5" -> <<"D", "e", "e">>
          [] n = "a6" -> <<"E", "v", "e">>]

\* title_basics: tconst -> primary_title, start_year, title_type
title_basics ==
    [t \in {"m1", "m2", "m3", "m4", "m5", "m6"} |->
        CASE t = "m1" -> [primary_title |-> <<"U", "p">>,
                          start_year |-> 2010, title_type |-> "movie"]
          [] t = "m2" -> [primary_title |-> <<"O", "d", "d", " ", "D", "u", "o">>,
                          start_year |-> 1995, title_type |-> "movie"]
          [] t = "m3" -> [primary_title |-> <<"O", "d", "d", " ", "J", "o", "b">>,
                          start_year |-> 1970, title_type |-> "movie"]
          [] t = "m4" -> [primary_title |-> <<"O", "l", "d", " ", "G", "a", "g">>,
                          start_year |-> 1950, title_type |-> "movie"]
          [] t = "m5" -> [primary_title |-> <<"O", "d", "d", " ", "J", "o", "b", "s">>,
                          start_year |-> 2015, title_type |-> "tvSeries"]
          [] t = "m6" -> [primary_title |-> <<"O", "d", "e">>,
                          start_year |-> 2018, title_type |-> "movie"]]

\* title_ratings: tconst -> num_votes (m5 has no rating row)
title_ratings ==
    [t \in {"m1", "m2", "m3", "m4", "m6"} |->
        CASE t = "m1" -> 250000
          [] t = "m2" -> 120000
          [] t = "m3" -> 20000
          [] t = "m4" -> 500
          [] t = "m6" -> 300000]

\* title_principals: the credit rows
title_principals ==
    { [tconst |-> "m1", nconst |-> "a1", ordering |-> 1, category |-> "actor"],
      [tconst |-> "m1", nconst |-> "a2", ordering |-> 2, category |-> "actress"],
      [tconst |-> "m1", nconst |-> "a3", ordering |-> 12, category |-> "actor"],
      [tconst |-> "m2", nconst |-> "a1", ordering |-> 1, category |-> "actor"],
      [tconst |-> "m2", nconst |-> "a3", ordering |-> 4, category |-> "actor"],
      [tconst |-> "m2", nconst |-> "a4", ordering |-> 5, category |-> "actor"],
      [tconst |-> "m2", nconst |-> "a5", ordering |-> 6, category |-> "actress"],
      [tconst |-> "m2", nconst |-> "a6", ordering |-> 7, category |-> "actress"],
      [tconst |-> "m3", nconst |-> "a1", ordering |-> 2, category |-> "actor"],
      [tconst |-> "m3", nconst |-> "a2", ordering |-> 11, category |-> "actress"],
      [tconst |-> "m3", nconst |-> "a4", ordering |-> 7, category |-> "director"],
      [tconst |-> "m4", nconst |-> "a1", ordering |-> 3, category |-> "actor"],
      [tconst |-> "m4", nconst |-> "a4", ordering |-> 1, category |-> "actor"],
      [tconst |-> "m5", nconst |-> "a5", ordering |-> 1, category |-> "actor"],
      [tconst |-> "m6", nconst |-> "a5", ordering |-> 1, category |-> "self"] }

Actors == DOMAIN name_basics
Titles == DOMAIN title_basics

\* category IN ('actor', 'actress')
ActorCategory == {"actor", "actress"}

\* COALESCE(r.num_votes, 0) over the LEFT JOIN with title_ratings
CoalesceVotes(t) == IF t \in DOMAIN title_ratings THEN title_ratings[t] ELSE 0

(***************************************************************************)
(* Text: a string is a sequence of one-character strings.                  *)
(***************************************************************************)
UpperCase == {"A", "B", "C", "D", "E", "G", "J", "L", "N", "O", "U", "X"}
LowerCase == {"a", "b", "c", "d", "e", "g", "i", "j", "l", "n", "o", "p",
              "s", "u", "v", "x", "y", "z"}

\* String.prototype.toLowerCase on one character
LowerChar(c) ==
    CASE c = "A" -> "a" [] c = "B" -> "b" [] c = "C" -> "c" [] c = "D" -> "d"
      [] c = "E" -> "e" [] c = "X" -> "x"
      [] c = "G" -> "g" [] c = "J" -> "j" [] c = "L" -> "l" [] c = "N" -> "n"
      [] c = "O" -> "o" [] c = "U" -> "u" [] OTHER -> c

toLowerCase(s) == [i \in 1..Len(s) |-> LowerChar(s[i])]

\* the regular-expression classes \s and \w
IsSpace(c) == c \in {" ", "\t"}
IsWord(c) == c \in UpperCase \cup LowerCase \cup {"_"}
IsWordOrSpace(c) == IsWord(c) \/ IsSpace(c)

\* replace(/\s+/g, " "): every maximal run of whitespace becomes one space
RECURSIVE CollapseSpaces(_)
CollapseSpaces(s) ==
    IF s = <<>> THEN <<>>
    ELSE IF IsSpace(Head(s))
         THEN IF Len(s) > 1 /\ IsSpace(s[2])
              THEN CollapseSpaces(Tail(s))
              ELSE <<" ">> \o CollapseSpaces(Tail(s))
         ELSE <<Head(s)>> \o CollapseSpaces(Tail(s))

\* String.prototype.trim
RECURSIVE TrimLeft(_)
TrimLeft(s) ==
    IF s # <<>> /\ IsSpace(Head(s)) THEN TrimLeft(Tail(s)) ELSE s

RECURSIVE TrimRight(_)
TrimRight(s) ==
    IF s # <<>> /\ IsSpace(s[Len(s)]) THEN TrimRight(SubSeq(s, 1, Len(s) - 1)) ELSE s

Trim(s) == TrimRight(TrimLeft(s))

\* replace(/[^\w\s]/g, "")
StripPunctuation(s) == SelectSeq(s, IsWordOrSpace)

\* split(/\s+/) without the empty pieces (they never pass a length filter)
RECURSIVE SplitWords(_)
SplitWords(s) ==
    LET t == TrimLeft(s)
        WordEnd == IF \E i \in 1..Len(t) : IsSpace(t[i])
                   THEN (CHOOSE i \in 1..Len(t) :
                            IsSpace(t[i]) /\ \A j \in 1..(i - 1) : ~IsSpace(t[j])) - 1
                   ELSE Len(t)
    IN  IF t = <<>> THEN <<>>
        ELSE <<SubSeq(t, 1, WordEnd)>> \o SplitWords(SubSeq(t, WordEnd + 1, Len(t)))

\* p occurs in s as a contiguous substring
Contains(s, p) ==
    \E i \in 0..(Len(s) - Len(p)) : SubSeq(s, i + 1, i + Len(p)) = p

_normalizeInput(input) == Trim(CollapseSpaces(input))

_normalizeForLike(input) ==
    Trim(CollapseSpaces(StripPunctuation(toLowerCase(input))))

(***************************************************************************)
(* _toFtsQueries.  An FTS5 query is modelled as the sequence of its quoted *)
(* phrases, which the query joins with AND.                                *)
(***************************************************************************)
LongWord(w) == Len(w) >= 3

\* addQuery: append unless already seen
addQuery(queries, q) ==
    IF \E i \in 1..Len(queries) : queries[i] = q THEN queries ELSE Append(queries, q)

\* the two addQuery calls of the loop body for one variant
AddVariant(queries, variant) ==
    LET words == SelectSeq(SplitWords(variant), LongWord)
        q1 == addQuery(queries, <<variant>>)
    IN  IF Len(words) > 1 THEN addQuery(q1, words)
        ELSE IF Len(words) = 1 THEN addQuery(q1, <<words[1]>>)
        ELSE q1

\* variant: both phrase forms first, the word queries after them
_toFtsQueries_PhrasesFirst(input) ==
    LET noPunctuation == StripPunctuation(input)
        forms == IF noPunctuation # input THEN <<input, noPunctuation>> ELSE <<input>>
        words(v) == SelectSeq(SplitWords(v), LongWord)
        phrases == IF Len(forms) = 2
                   THEN addQuery(<< <<forms[1]>> >>, <<forms[2]>>)
                   ELSE << <<forms[1]>> >>
        w1 == IF words(forms[1]) # <<>> THEN addQuery(phrases, words(forms[1])) ELSE phrases
    IN  IF Len(forms) = 2 /\ words(forms[2]) # <<>>
        THEN addQuery(w1, words(forms[2]))
        ELSE w1

_toFtsQueries(input) ==
    LET noPunctuation == StripPunctuation(input)
        q1 == AddVariant(<<>>, input)
    IN  IF noPunctuation # input THEN AddVariant(q1, noPunctuation) ELSE q1

(***************************************************************************)
(* SQL helpers                                                             *)
(***************************************************************************)
Min(a, b) == IF a < b THEN a ELSE b

\* lexicographic >= on pairs of sort keys
KeyGE(k1, k2) == k1[1] > k2[1] \/ (k1[1] = k2[1] /\ k1[2] >= k2[2])

\* ORDER BY key DESC: every enumeration of S with non-increasing keys (rows
\* with equal keys come in an order SQLite does not fix)
RECURSIVE OrderByDesc(_, _)
OrderByDesc(S, key) ==
    IF S = {} THEN {<<>>}
    ELSE UNION { { <<x>> \o r : r \in OrderByDesc(S \ {x}, key) } :
                 x \in {y \in S : \A z \in S : KeyGE(key[y], key[z])} }

\* LIMIT n
Limit(rows, n) == SubSeq(rows, 1, Min(Len(rows), n))

\* the set of elements of a sequence
Range(seq) == {seq[i] : i \in 1..Len(seq)}

(***************************************************************************)
(* Search statements                                                       *)
(***************************************************************************)
\* FTS5 MATCH with tokenize='trigram': every phrase of the query occurs in
\* the text, ignoring case; a phrase shorter than three characters matches
\* nothing
FtsMatch(text, ftsQuery) ==
    \A i \in 1..Len(ftsQuery) :
        /\ Len(ftsQuery[i]) >= 3
        /\ Contains(toLowerCase(text), toLowerCase(ftsQuery[i]))

\* LIKE '%pattern%' on an already lower-cased text: "_" matches any one
\* character, every other character matches itself
LikeContains(text, pattern) ==
    \E i \in 0..(Len(text) - Len(pattern)) :
        \A j \in 1..Len(pattern) : pattern[j] = "_" \/ pattern[j] = text[i + j]

\* COUNT(DISTINCT tp.tconst) as movie_count of the actor searches
movie_count(n) ==
    Cardinality({p.tconst : p \in {q \in title_principals :
                    /\ q.nconst = n
                    /\ q.category \in ActorCategory
                    /\ title_basics[q.tconst].title_type = "movie"}})

movie_count_key == [n \in Actors |-> <<movie_count(n), 0>>]
num_votes_key == [t \in Titles |-> <<CoalesceVotes(t), 0>>]

\* the possible results of stmtSearchActors.all(ftsQuery, limit)
stmtSearchActors(ftsQuery, limit) ==
    { Limit(rows, limit) : rows \in OrderByDesc(
        {n \in Actors : FtsMatch(name_basics[n], ftsQuery) /\ movie_count(n) > 0},
        movie_count_key) }

\* title_basics_fts holds the titles of these types (rebuild_fts.js)
FtsTitleTypes == {"movie", "tvSeries", "tvMiniSeries", "tvMovie", "video"}

\* the possible results of stmtSearchMovies.all(ftsQuery, limit)
stmtSearchMovies(ftsQuery, limit) ==
    { Limit(rows, limit) : rows \in OrderByDesc(
        {t \in Titles : /\ title_basics[t].title_type \in FtsTitleTypes
                        /\ FtsMatch(title_basics[t].primary_title, ftsQuery)
                        /\ title_basics[t].title_type = "movie"},
        num_votes_key) }

\* the possible results of stmtSearchActorsLike.all(likePattern, limit),
\* likePattern being %pattern%
stmtSearchActorsLike(pattern, limit) ==
    { Limit(rows, limit) : rows \in OrderByDesc(
        {n \in Actors : /\ LikeContains(toLowerCase(name_basics[n]), pattern)
                        /\ movie_count(n) > 0},
        movie_count_key) }

\* the possible results of stmtSearchMoviesLike.all(likePattern, limit)
stmtSearchMoviesLike(pattern, limit) ==
    { Limit(rows, limit) : rows \in OrderByDesc(
        {t \in Titles : /\ LikeContains(toLowerCase(title_basics[t].primary_title), pattern)
                        /\ title_basics[t].title_type = "movie"},
        num_votes_key) }

(***************************************************************************)
(* The resolver: searchActors / searchMovies                               *)
(***************************************************************************)
\* the loop over ftsQueries from position i: the first query with a
\* non-empty result decides; after the last one the LIKE fallback runs
RECURSIVE TryQueries(_, _, _, _, _)
TryQueries(kind, ftsQueries, i, query, limit) ==
    IF i > Len(ftsQueries)
    THEN IF kind = ACTOR
         THEN stmtSearchActorsLike(_normalizeForLike(query), limit)
         ELSE stmtSearchMoviesLike(_normalizeForLike(query), limit)
    ELSE LET results == IF kind = ACTOR
                        THEN stmtSearchActors(ftsQueries[i], limit)
                        ELSE stmtSearchMovies(ftsQueries[i], limit)
         IN  IF \E r \in results : Len(r) > 0
             THEN results
             ELSE TryQueries(kind, ftsQueries, i + 1, query, limit)

\* the possible return values of searchActors(query, limit)
searchActors(query, limit) ==
    LET normalized == _normalizeInput(query)
    IN  IF normalized = <<>> THEN {<<>>}
        ELSE TryQueries(ACTOR, _toFtsQueries(normalized), 1, query, limit)

\* the possible return values of searchMovies(query, limit)
searchMovies(query, limit) ==
    LET normalized == _normalizeInput(query)
    IN  IF normalized = <<>> THEN {<<>>}
        ELSE TryQueries(MOVIE, _toFtsQueries(normalized), 1, query, limit)

(***************************************************************************)
(* The resolver with the queries it issues.  fails is the set of store     *)
(* queries that throw, <<"fts", q>> for a MATCH query and <<"like", p>>    *)
(* for a LIKE pattern; a run is the list of queries issued, each with      *)
(* whether it threw, and what the call returned or THROWN.                 *)
(***************************************************************************)
THROWN == "thrown"

LogEntry(tier, q, threw) == [tier |-> tier, q |-> q, threw |-> threw]

\* the loop over ftsQueries from position i with its try/catch, then the
\* LIKE fallback, which has no handler
RECURSIVE RunQueries(_, _, _, _, _, _, _)
RunQueries(kind, ftsQueries, i, query, limit, fails, log) ==
    IF i > Len(ftsQueries)
    THEN LET p == _normalizeForLike(query)
         IN  IF <<"like", p>> \in fails
             THEN {[log |-> Append(log, LogEntry("like", p, TRUE)), out |-> THROWN]}
             ELSE {[log |-> Append(log, LogEntry("like", p, FALSE)), out |-> r] :
                      r \in (IF kind = ACTOR
                             THEN stmtSearchActorsLike(p, limit)
                             ELSE stmtSearchMoviesLike(p, limit))}
    ELSE IF <<"fts", ftsQueries[i]>> \in fails
    THEN RunQueries(kind, ftsQueries, i + 1, query, limit, fails,
                    Append(log, LogEntry("fts", ftsQueries[i], TRUE)))
    ELSE LET results == IF kind = ACTOR
                        THEN stmtSearchActors(ftsQueries[i], limit)
                        ELSE stmtSearchMovies(ftsQueries[i], limit)
             log1 == Append(log, LogEntry("fts", ftsQueries[i], FALSE))
         IN  IF \E r \in results : Len(r) > 0
             THEN {[log |-> log1, out |-> r] : r \in results}
             ELSE RunQueries(kind, ftsQueries, i + 1, query, limit, fails, log1)

\* variant: the resolver asks the substring statement only
SearchRun_LikeOnly(kind, query, limit, fails) ==
    LET normalized == _normalizeInput(query)
    IN  IF normalized = <<>> THEN {[log |-> <<>>, out |-> <<>>]}
        ELSE RunQueries(kind, <<>>, 1, query, limit, fails, <<>>)

\* variant: the resolver queries the store even for an empty input
SearchRun_NoEmptyCheck(kind, query, limit, fails) ==
    RunQueries(kind, _toFtsQueries(_normalizeInput(query)), 1, query, limit, fails, <<>>)

\* the runs of searchActors (kind ACTOR) or searchMovies (kind MOVIE)
SearchRun(kind, query, limit, fails) ==
    LET normalized == _normalizeInput(query)
    IN  IF normalized = <<>> THEN {[log |-> <<>>, out |-> <<>>]}
        ELSE RunQueries(kind, _toFtsQueries(normalized), 1, query, limit, fails, <<>>)

\* variant: the validation applies the profile's billing ceiling, as
\* getMovieCast and getActorMovies do
_validateActorInMovie_Billing(cfg, actorNconst, movieTconst) ==
    \E tp \in title_principals :
        /\ tp.tconst = movieTconst
        /\ tp.nconst = actorNconst
        /\ tp.category \in ActorCategory
        /\ tp.ordering <= cfg.maxOrdering

\* stmtValidateActorInMovie.get(movieTconst, actorNconst) !== undefined;
\* cfg is this.config, which the method can read
_validateActorInMovie(cfg, actorNconst, movieTconst) ==
    \E tp \in title_principals :
        /\ tp.tconst = movieTconst
        /\ tp.nconst = actorNconst
        /\ tp.category \in ActorCategory

(***************************************************************************)
(* Round-start and computer statements                                     *)
(***************************************************************************)
\* the rows stmtRandomActor.get(minVotesForStart, minYear, maxOrdering,
\* minActorMovies) can return (ORDER BY RANDOM() LIMIT 1 picks any of them)
stmtRandomActor(minVotesForStart, minYear, maxOrdering, minActorMovies) ==
    {n \in Actors :
        Cardinality({p.tconst : p \in {q \in title_principals :
            /\ q.nconst = n
            /\ q.category \in ActorCategory
            /\ title_basics[q.tconst].title_type = "movie"
            /\ q.tconst \in DOMAIN title_ratings
            /\ title_ratings[q.tconst] >= minVotesForStart
            /\ title_basics[q.tconst].start_year >= minYear
            /\ q.ordering <= maxOrdering}}) >= (IF minActorMovies > 1 THEN minActorMovies ELSE 1)}

\* the rows stmtRandomMovie.get(minVotesForStart, minYear) can return
stmtRandomMovie(minVotesForStart, minYear) ==
    {t \in Titles :
        /\ title_basics[t].title_type = "movie"
        /\ t \in DOMAIN title_ratings
        /\ title_ratings[t] >= minVotesForStart
        /\ title_basics[t].start_year >= minYear}

\* career_size and cast_size sub-selects
career_size(n) ==
    Cardinality({p \in title_principals : p.nconst = n /\ p.category \in ActorCategory})

cast_size(t) ==
    Cardinality({p \in title_principals : p.tconst = t /\ p.category \in ActorCategory})

\* variant: the actor pick accepts credits of any category
stmtComputerPickActorBase_AnyCategory(tconst, maxOrdering, used) ==
    {tp.nconst : tp \in {q \in title_principals :
        /\ q.nconst \in Actors
        /\ q.tconst = tconst
        /\ q.ordering <= maxOrdering
        /\ q.nconst \notin used}}

\* rows of stmtComputerPickActorBase plus the NOT IN clause built from used
stmtComputerPickActorBase(tconst, maxOrdering, used) ==
    {tp.nconst : tp \in {q \in title_principals :
        /\ q.nconst \in Actors
        /\ q.tconst = tconst
        /\ q.category \in ActorCategory
        /\ q.ordering <= maxOrdering
        /\ q.nconst \notin used}}

\* rows of stmtComputerPickMovieBase plus the NOT IN clause built from used
stmtComputerPickMovieBase(nconst, maxOrdering, minYear, minVotes, used) ==
    {tp.tconst : tp \in {q \in title_principals :
        /\ q.tconst \in Titles
        /\ q.nconst = nconst
        /\ q.category \in ActorCategory
        /\ title_basics[q.tconst].title_type = "movie"
        /\ q.ordering <= maxOrdering
        /\ title_basics[q.tconst].start_year >= minYear
        /\ CoalesceVotes(q.tconst) >= minVotes
        /\ q.tconst \notin used}}

(***************************************************************************)
(* Session state                                                           *)
(***************************************************************************)
VARIABLES
    difficulty,       \* options.difficulty, fixed at construction
    state,            \* this.state
    currentPlayer,    \* this.currentPlayer
    currentItemType,  \* this.currentItemType
    currentItem,      \* this.currentItem (the row's nconst / tconst)
    usedActors,       \* this.usedActors
    usedMovies,       \* this.usedMovies
    scores,           \* this.scores
    roundNumber,      \* this.roundNumber
    winner,           \* this.winner
    lastMoveMessage,  \* this.lastMoveMessage
    result,           \* the value returned by the last public call
    accepted,         \* history: ids named by accepted moves since the last startRound
    peer,             \* the fields of a second engine instance on the same store
    focus,            \* which of the two instances the fields above belong to
    calls,            \* number of calls the server has dispatched to the two
    search,           \* the last resolver call: its queries and what it returned
    tmdb,             \* the enrichment script: its last run and title_principals
    web,              \* the web Game wrapper: its fields and the call in progress
    server            \* server.js: the games map, the sockets and the pending timers

vars == <<difficulty, state, currentPlayer, currentItemType, currentItem,
          usedActors, usedMovies, scores, roundNumber, winner,
          lastMoveMessage, result, accepted, peer, focus, calls, search, tmdb, web, server>>

\* this.config
config == DIFFICULTY_CONFIG[difficulty]

\* the shape of a returned object: which call, success, which of the return
\* statements produced it, and the items / players it carries
Result(op, success, kind, item, roundWinner, gameWinner) ==
    [op |-> op, success |-> success, kind |-> kind,
     matchedItem |-> IF kind \in {"already_used", "not_connected", "valid", "picked"}
                     THEN item ELSE NULL,
     startingItem |-> IF kind = "start" THEN item ELSE NULL,
     proofItem |-> IF kind = "round_end" THEN item ELSE NULL,
     roundWinner |-> roundWinner, gameWinner |-> gameWinner]

NoResult == Result("new", TRUE, "none", NULL, NULL, NULL)

\* the variables that belong to none of the engine instances
others == <<search, tmdb, web, server>>

\* the fields of one engine instance and the value its last call returned
engine == <<difficulty, state, currentPlayer, currentItemType, currentItem,
            usedActors, usedMovies, scores, roundNumber, winner,
            lastMoveMessage, result, accepted>>

\* no resolver call has been observed yet
NoSearch == [kind |-> NULL, query |-> <<>>, limit |-> 0, log |-> <<>>, out |-> <<>>]

\* the database before the enrichment script has run
NoTmdb ==
    [ran |-> FALSE, again |-> FALSE, file |-> <<>>, table |-> title_principals,
     stats |-> [totalRows |-> 0, moviesMatched |-> 0, actorsAdded |-> 0,
                actorsAlreadyLinked |-> 0, actorsNotFound |-> 0]]

\* a Game as its constructor leaves it; at is the engine call that
\* processInput makes next ("idle" between two calls of processInput)
NoWeb ==
    [phase |-> "difficulty", at |-> "idle", output |-> "none", lastOutput |-> "none",
     pending |-> "none", gaveUp |-> FALSE]

\* the sockets that connect to the server and the ids generateGameId draws
Sockets == {"s1", "s2", "s3"}
GameIds == {"g1", "g2"}

\* the server after start-up: no game, no connection, no timer.  games maps
\* a game id to socketId and timeoutId (a timer is named by the socket whose
\* disconnect set it); currentGameId is the variable of each connection
NoServer ==
    [games |-> <<>>,
     conn |-> [s \in Sockets |-> "none"],
     currentGameId |-> [s \in Sockets |-> NULL],
     timers |-> {},
     last |-> [event |-> "none", socket |-> NULL, gameId |-> NULL, found |-> FALSE]]

\* bound: the calls dispatched to two concurrent sessions
MaxCalls == 4

\* the fields of an instance after new MovieActor({ difficulty: d })
NewGame(d) ==
    [difficulty |-> d, state |-> IDLE, currentPlayer |-> NULL,
     currentItemType |-> NULL, currentItem |-> NULL,
     usedActors |-> {}, usedMovies |-> {},
     scores |-> [p \in PLAYER |-> 0], roundNumber |-> 0, winner |-> NULL,
     lastMoveMessage |-> <<NULL, NULL>>, accepted |-> <<>>]

\* constructor: _resetState
Init ==
    /\ difficulty \in DIFFICULTY
    /\ state = IDLE
    /\ currentPlayer = NULL
    /\ currentItemType = NULL
    /\ currentItem = NULL
    /\ usedActors = {}
    /\ usedMovies = {}
    /\ scores = [p \in PLAYER |-> 0]
    /\ roundNumber = 0
    /\ winner = NULL
    /\ lastMoveMessage = <<NULL, NULL>>
    /\ result = NoResult
    /\ accepted = <<>>
    /\ peer = NewGame(difficulty)
    /\ focus = 1
    /\ calls = 0
    /\ search = NoSearch
    /\ tmdb = NoTmdb
    /\ web = NoWeb
    /\ server = NoServer

(***************************************************************************)
(* startGame / startRound / nextRound / restart                            *)
(***************************************************************************)
\* variant: the used-sets are kept across round starts
startRound_NoClear(op, player0, type0, item0, message0) ==
    /\ accepted' = <<>>
    /\ \E startWithActor \in BOOLEAN :
        IF startWithActor
        THEN LET rows == stmtRandomActor(config.minVotesForStart, config.minYear,
                                         config.maxOrdering, config.minActorMovies)
             IN  IF rows = {}
                 THEN /\ usedActors' = {}
                      /\ usedMovies' = {}
                      /\ currentItem' = item0
                      /\ currentItemType' = type0
                      /\ currentPlayer' = player0
                      /\ lastMoveMessage' = message0
                      /\ result' = Result(op, FALSE, "start_failed", NULL, NULL, NULL)
                 ELSE \E actor \in rows :
                      /\ currentItem' = actor
                      /\ currentItemType' = ACTOR
                      /\ usedActors' = usedActors \cup {actor}
                      /\ usedMovies' = usedMovies
                      /\ currentPlayer' = HUMAN
                      /\ lastMoveMessage' = <<"Computer starts with actor", actor>>
                      /\ result' = Result(op, TRUE, "start", actor, NULL, NULL)
        ELSE LET rows == stmtRandomMovie(config.minVotesForStart, config.minYear)
             IN  IF rows = {}
                 THEN /\ usedActors' = {}
                      /\ usedMovies' = {}
                      /\ currentItem' = item0
                      /\ currentItemType' = type0
                      /\ currentPlayer' = player0
                      /\ lastMoveMessage' = message0
                      /\ result' = Result(op, FALSE, "start_failed", NULL, NULL, NULL)
                 ELSE \E movie \in rows :
                      /\ currentItem' = movie
                      /\ currentItemType' = MOVIE
                      /\ usedActors' = usedActors
                      /\ usedMovies' = usedMovies \cup {movie}
                      /\ currentPlayer' = HUMAN
                      /\ lastMoveMessage' = <<"Computer starts with movie", movie>>
                      /\ result' = Result(op, TRUE, "start", movie, NULL, NULL)

\* startRound, called with the fields currentPlayer, currentItemType,
\* currentItem and lastMoveMessage as the caller left them
startRound(op, player0, type0, item0, message0) ==
    /\ accepted' = <<>>
    /\ \E startWithActor \in BOOLEAN :
        IF startWithActor
        THEN LET rows == stmtRandomActor(config.minVotesForStart, config.minYear,
                                         config.maxOrdering, config.minActorMovies)
             IN  IF rows = {}
                 THEN /\ usedActors' = {}
                      /\ usedMovies' = {}
                      /\ currentItem' = item0
                      /\ currentItemType' = type0
                      /\ currentPlayer' = player0
                      /\ lastMoveMessage' = message0
                      /\ result' = Result(op, FALSE, "start_failed", NULL, NULL, NULL)
                 ELSE \E actor \in rows :
                      /\ currentItem' = actor
                      /\ currentItemType' = ACTOR
                      /\ usedActors' = {actor}
                      /\ usedMovies' = {}
                      /\ currentPlayer' = HUMAN
                      /\ lastMoveMessage' = <<"Computer starts with actor", actor>>
                      /\ result' = Result(op, TRUE, "start", actor, NULL, NULL)
        ELSE LET rows == stmtRandomMovie(config.minVotesForStart, config.minYear)
             IN  IF rows = {}
                 THEN /\ usedActors' = {}
                      /\ usedMovies' = {}
                      /\ currentItem' = item0
                      /\ currentItemType' = type0
                      /\ currentPlayer' = player0
                      /\ lastMoveMessage' = message0
                      /\ result' = Result(op, FALSE, "start_failed", NULL, NULL, NULL)
                 ELSE \E movie \in rows :
                      /\ currentItem' = movie
                      /\ currentItemType' = MOVIE
                      /\ usedActors' = {}
                      /\ usedMovies' = {movie}
                      /\ currentPlayer' = HUMAN
                      /\ lastMoveMessage' = <<"Computer starts with movie", movie>>
                      /\ result' = Result(op, TRUE, "start", movie, NULL, NULL)

\* startGame: _resetState, then state and roundNumber, then startRound
startGameAs(op) ==
    /\ state' = PLAYING
    /\ roundNumber' = 1
    /\ scores' = [p \in PLAYER |-> 0]
    /\ winner' = NULL
    /\ startRound(op, NULL, NULL, NULL, <<NULL, NULL>>)
    /\ UNCHANGED difficulty

startGame == startGameAs("startGame")

restart == startGameAs("restart")

\* a call rejected by a state or turn check: only the returned value is new
Illegal(op) ==
    /\ result' = Result(op, FALSE, "illegal", NULL, NULL, NULL)
    /\ UNCHANGED <<difficulty, state, currentPlayer, currentItemType, currentItem,
                   usedActors, usedMovies, scores, roundNumber, winner,
                   lastMoveMessage, accepted>>

\* variant: nextRound keeps the round number
nextRound_NoIncrement ==
    IF state # ROUND_OVER
    THEN Illegal("nextRound")
    ELSE /\ state' = PLAYING
         /\ startRound("nextRound", currentPlayer, currentItemType, currentItem,
                       lastMoveMessage)
         /\ UNCHANGED <<difficulty, scores, winner, roundNumber>>

\* variant: nextRound is also taken once the game is over
nextRound_FromGameOver ==
    IF state \notin {ROUND_OVER, GAME_OVER}
    THEN Illegal("nextRound")
    ELSE /\ roundNumber' = roundNumber + 1
         /\ state' = PLAYING
         /\ startRound("nextRound", currentPlayer, currentItemType, currentItem,
                       lastMoveMessage)
         /\ UNCHANGED <<difficulty, scores, winner>>

nextRound ==
    IF state # ROUND_OVER
    THEN Illegal("nextRound")
    ELSE /\ roundNumber' = roundNumber + 1
         /\ state' = PLAYING
         /\ startRound("nextRound", currentPlayer, currentItemType, currentItem,
                       lastMoveMessage)
         /\ UNCHANGED <<difficulty, scores, winner>>

\* variant: the winning point ends the round but not the game
_endRound_RoundOnly(op, roundWinner, message, proofItem) ==
    LET newScore == scores[roundWinner] + 1
        gameWinner == IF newScore >= RoundsToWin THEN roundWinner ELSE NULL
    IN  /\ scores' = [scores EXCEPT ![roundWinner] = newScore]
        /\ state' = ROUND_OVER
        /\ UNCHANGED winner
        /\ lastMoveMessage' = <<message, proofItem>>
        /\ result' = Result(op, TRUE, "round_end", proofItem, roundWinner, gameWinner)
        /\ UNCHANGED <<difficulty, currentPlayer, currentItemType, currentItem,
                       usedActors, usedMovies, roundNumber, accepted>>

(***************************************************************************)
(* _endRound                                                               *)
(***************************************************************************)
\* variant: the game is won only once the score exceeds roundsToWin
_endRound_Exceeds(op, roundWinner, message, proofItem) ==
    LET newScore == scores[roundWinner] + 1
        gameWinner == IF newScore > RoundsToWin THEN roundWinner ELSE NULL
    IN  /\ scores' = [scores EXCEPT ![roundWinner] = newScore]
        /\ IF gameWinner # NULL
           THEN state' = GAME_OVER /\ winner' = gameWinner
           ELSE state' = ROUND_OVER /\ UNCHANGED winner
        /\ lastMoveMessage' = <<message, proofItem>>
        /\ result' = Result(op, TRUE, "round_end", proofItem, roundWinner, gameWinner)
        /\ UNCHANGED <<difficulty, currentPlayer, currentItemType, currentItem,
                       usedActors, usedMovies, roundNumber, accepted>>

_endRound(op, roundWinner, message, proofItem) ==
    LET newScore == scores[roundWinner] + 1
        gameWinner == IF newScore >= RoundsToWin THEN roundWinner ELSE NULL
    IN  /\ scores' = [scores EXCEPT ![roundWinner] = newScore]
        /\ IF gameWinner # NULL
           THEN state' = GAME_OVER /\ winner' = gameWinner
           ELSE state' = ROUND_OVER /\ UNCHANGED winner
        /\ lastMoveMessage' = <<message, proofItem>>
        /\ result' = Result(op, TRUE, "round_end", proofItem, roundWinner, gameWinner)
        /\ UNCHANGED <<difficulty, currentPlayer, currentItemType, currentItem,
                       usedActors, usedMovies, roundNumber, accepted>>

(***************************************************************************)
(* humanMove                                                               *)
(***************************************************************************)
\* variant: a rejected move hands the turn to the computer
HumanReject_ConsumesTurn(kind, matchedItem) ==
    /\ result' = Result("humanMove", FALSE, kind, matchedItem, NULL, NULL)
    /\ currentPlayer' = COMPUTER
    /\ UNCHANGED <<difficulty, state, currentItemType, currentItem,
                   usedActors, usedMovies, scores, roundNumber, winner,
                   lastMoveMessage, accepted>>

\* a return of humanMove that assigns no field
HumanReject(kind, matchedItem) ==
    /\ result' = Result("humanMove", FALSE, kind, matchedItem, NULL, NULL)
    /\ UNCHANGED <<difficulty, state, currentPlayer, currentItemType, currentItem,
                   usedActors, usedMovies, scores, roundNumber, winner,
                   lastMoveMessage, accepted>>

\* variant: the used-set is not consulted
HumanItemUsed_Never(id, used) == FALSE

\* this.usedActors.has(actor.nconst) / this.usedMovies.has(movie.tconst)
HumanItemUsed(id, used) == id \in used

\* variant: the accepted move does not hand the turn over
HumanAcceptActor_KeepsTurn(actor) ==
    /\ usedActors' = usedActors \cup {actor}
    /\ currentItem' = actor
    /\ currentItemType' = ACTOR
    /\ currentPlayer' = currentPlayer
    /\ lastMoveMessage' = <<"You named", actor>>
    /\ result' = Result("humanMove", TRUE, "valid", actor, NULL, NULL)
    /\ accepted' = Append(accepted, actor)
    /\ UNCHANGED <<difficulty, state, usedMovies, scores, roundNumber, winner>>

\* the "Valid move!" block of _humanPicksActor
HumanAcceptActor(actor) ==
    /\ usedActors' = usedActors \cup {actor}
    /\ currentItem' = actor
    /\ currentItemType' = ACTOR
    /\ currentPlayer' = COMPUTER
    /\ lastMoveMessage' = <<"You named", actor>>
    /\ result' = Result("humanMove", TRUE, "valid", actor, NULL, NULL)
    /\ accepted' = Append(accepted, actor)
    /\ UNCHANGED <<difficulty, state, usedMovies, scores, roundNumber, winner>>

\* the "Valid move!" block of _humanPicksMovie
HumanAcceptMovie(movie) ==
    /\ usedMovies' = usedMovies \cup {movie}
    /\ currentItem' = movie
    /\ currentItemType' = MOVIE
    /\ currentPlayer' = COMPUTER
    /\ lastMoveMessage' = <<"You named", movie>>
    /\ result' = Result("humanMove", TRUE, "valid", movie, NULL, NULL)
    /\ accepted' = Append(accepted, movie)
    /\ UNCHANGED <<difficulty, state, usedActors, scores, roundNumber, winner>>

\* what a humanMove return statement reports: which return it is and the
\* matchedItem it carries
Outcome(kind, matchedItem) == [kind |-> kind, matchedItem |-> matchedItem]

\* index of the first search result connected to the current item, 0 if none
FirstConnectedActor(cfg, actors) ==
    LET hits == {i \in 1..Len(actors) : _validateActorInMovie(cfg, actors[i], currentItem)}
    IN  IF hits = {} THEN 0 ELSE CHOOSE i \in hits : \A j \in hits : i <= j

FirstConnectedMovie(cfg, movies) ==
    LET hits == {i \in 1..Len(movies) : _validateActorInMovie(cfg, currentItem, movies[i])}
    IN  IF hits = {} THEN 0 ELSE CHOOSE i \in hits : \A j \in hits : i <= j

\* the return statement _humanPicksActor reaches for these search results
PickActorFrom(cfg, actors) ==
    IF Len(actors) = 0
    THEN Outcome("not_found", NULL)
    ELSE LET i == FirstConnectedActor(cfg, actors)
         IN  IF i = 0
             THEN Outcome("not_connected", actors[1])
             ELSE IF HumanItemUsed(actors[i], usedActors)
                  THEN Outcome("already_used", actors[i])
                  ELSE Outcome("valid", actors[i])

\* variant: only the best-ranked search result is validated
PickMovieFrom_BestOnly(cfg, movies) ==
    IF Len(movies) = 0
    THEN Outcome("not_found", NULL)
    ELSE IF ~_validateActorInMovie(cfg, currentItem, movies[1])
         THEN Outcome("not_connected", movies[1])
         ELSE IF HumanItemUsed(movies[1], usedMovies)
              THEN Outcome("already_used", movies[1])
              ELSE Outcome("valid", movies[1])

\* the return statement _humanPicksMovie reaches for these search results
PickMovieFrom(cfg, movies) ==
    IF Len(movies) = 0
    THEN Outcome("not_found", NULL)
    ELSE LET i == FirstConnectedMovie(cfg, movies)
         IN  IF i = 0
             THEN Outcome("not_connected", movies[1])
             ELSE IF HumanItemUsed(movies[i], usedMovies)
                  THEN Outcome("already_used", movies[i])
                  ELSE Outcome("valid", movies[i])

\* the outcomes _humanPicksActor(query) can have in the current state when
\* this.config is cfg
_humanPicksActor(cfg, query) ==
    { PickActorFrom(cfg, actors) : actors \in searchActors(query, 5) }

_humanPicksMovie(cfg, query) ==
    { PickMovieFrom(cfg, movies) : movies \in searchMovies(query, 5) }

\* the outcomes of humanMove(input) once the state and turn checks passed
humanMoveOutcomes(cfg, input) ==
    LET normalized == _normalizeInput(input)
    IN  IF normalized = <<>>
        THEN {Outcome("invalid_name", NULL)}
        ELSE IF currentItemType = MOVIE
             THEN _humanPicksActor(cfg, normalized)
             ELSE _humanPicksMovie(cfg, normalized)

humanMove(input) ==
    IF state # PLAYING
    THEN Illegal("humanMove")
    ELSE IF currentPlayer # HUMAN
    THEN Illegal("humanMove")
    ELSE \E o \in humanMoveOutcomes(config, input) :
            IF o.kind = "valid"
            THEN IF currentItemType = MOVIE
                 THEN HumanAcceptActor(o.matchedItem)
                 ELSE HumanAcceptMovie(o.matchedItem)
            ELSE HumanReject(o.kind, o.matchedItem)

(***************************************************************************)
(* computerMove                                                            *)
(***************************************************************************)
career_size_key == [n \in Actors |-> <<career_size(n), 0>>]
cast_size_key == [t \in Titles |-> <<cast_size(t), CoalesceVotes(t)>>]

\* the possible values of candidates in _computerPicksActor
ComputerActorCandidates ==
    { Limit(rows, 5) : rows \in OrderByDesc(
        stmtComputerPickActorBase(currentItem, config.maxOrdering, usedActors),
        career_size_key) }

\* variant: the pick query has no vote floor
ComputerMovieCandidates_NoVotes ==
    { Limit(rows, 5) : rows \in OrderByDesc(
        stmtComputerPickMovieBase(currentItem, config.maxOrdering, config.minYear,
                                  0, usedMovies),
        cast_size_key) }

\* the possible values of candidates in _computerPicksMovie
ComputerMovieCandidates ==
    { Limit(rows, 5) : rows \in OrderByDesc(
        stmtComputerPickMovieBase(currentItem, config.maxOrdering, config.minYear,
                                  config.minVotes, usedMovies),
        cast_size_key) }

\* variant: the pick is drawn from the whole candidate list
PickIndexes_All(candidates) == 1..Len(candidates)

\* the indexes Math.floor(Math.random() * Math.min(candidates.length, 3)) can
\* take, shifted to 1-based
PickIndexes(candidates) == 1..Min(Len(candidates), 3)

\* variant: giving up credits the computer
_computerGivesUp_Computer ==
    _endRound("computerMove", COMPUTER, "Computer couldn't find a valid answer!", NULL)

_computerGivesUp ==
    _endRound("computerMove", HUMAN, "Computer couldn't find a valid answer!", NULL)

_computerPicksActor ==
    \E candidates \in ComputerActorCandidates :
        IF Len(candidates) = 0
        THEN _computerGivesUp
        ELSE \E k \in PickIndexes(candidates) :
             LET pick == candidates[k]
             IN  /\ usedActors' = usedActors \cup {pick}
                 /\ currentItem' = pick
                 /\ currentItemType' = ACTOR
                 /\ currentPlayer' = HUMAN
                 /\ lastMoveMessage' = <<"Computer named", pick>>
                 /\ result' = Result("computerMove", TRUE, "picked", pick, NULL, NULL)
                 /\ accepted' = Append(accepted, pick)
                 /\ UNCHANGED <<difficulty, state, usedMovies, scores, roundNumber, winner>>

_computerPicksMovie ==
    \E candidates \in ComputerMovieCandidates :
        IF Len(candidates) = 0
        THEN _computerGivesUp
        ELSE \E k \in PickIndexes(candidates) :
             LET pick == candidates[k]
             IN  /\ usedMovies' = usedMovies \cup {pick}
                 /\ currentItem' = pick
                 /\ currentItemType' = MOVIE
                 /\ currentPlayer' = HUMAN
                 /\ lastMoveMessage' = <<"Computer named", pick>>
                 /\ result' = Result("computerMove", TRUE, "picked", pick, NULL, NULL)
                 /\ accepted' = Append(accepted, pick)
                 /\ UNCHANGED <<difficulty, state, usedActors, scores, roundNumber, winner>>

\* variant: the computer moves without checking whose turn it is
computerMove_NoTurnCheck ==
    IF state # PLAYING
    THEN Illegal("computerMove")
    ELSE IF currentItemType = MOVIE
         THEN _computerPicksActor
         ELSE _computerPicksMovie

computerMove ==
    IF state # PLAYING
    THEN Illegal("computerMove")
    ELSE IF currentPlayer # COMPUTER
    THEN Illegal("computerMove")
    ELSE IF currentItemType = MOVIE
         THEN _computerPicksActor
         ELSE _computerPicksMovie

(***************************************************************************)
(* humanChallenge                                                          *)
(***************************************************************************)
\* variant: the proof query has no NOT IN clause
_computerFindProofActor_IgnoresUsed ==
    LET rows == stmtComputerPickActorBase(currentItem, config.maxOrdering, {})
    IN  IF rows = {} THEN {NULL} ELSE rows

\* the values _computerFindProofActor can return: NULL when the statement
\* has no row, otherwise any row (LIMIT 1 without ORDER BY)
_computerFindProofActor ==
    LET rows == stmtComputerPickActorBase(currentItem, config.maxOrdering, usedActors)
    IN  IF rows = {} THEN {NULL} ELSE rows

\* variant: the proof is searched in the full graph
_computerFindProofMovie_FullGraph ==
    LET rows == stmtComputerPickMovieBase(currentItem, 999999, 0, 0, usedMovies)
    IN  IF rows = {} THEN {NULL} ELSE rows

_computerFindProofMovie ==
    LET rows == stmtComputerPickMovieBase(currentItem, config.maxOrdering, config.minYear,
                                          config.minVotes, usedMovies)
    IN  IF rows = {} THEN {NULL} ELSE rows

\* variant: the proof the computer shows is recorded as used
humanChallenge_UsesProof ==
    IF state # PLAYING
    THEN Illegal("humanChallenge")
    ELSE IF currentPlayer # HUMAN
    THEN Illegal("humanChallenge")
    ELSE \E proofItem \in (IF currentItemType = MOVIE
                           THEN _computerFindProofActor
                           ELSE _computerFindProofMovie) :
            IF proofItem # NULL
            THEN /\ scores' = [scores EXCEPT ![COMPUTER] = scores[COMPUTER] + 1]
                 /\ IF scores[COMPUTER] + 1 >= RoundsToWin
                    THEN state' = GAME_OVER /\ winner' = COMPUTER
                    ELSE state' = ROUND_OVER /\ UNCHANGED winner
                 /\ lastMoveMessage' = <<"Challenge failed! Computer proves", proofItem>>
                 /\ result' = Result("humanChallenge", TRUE, "round_end", proofItem, COMPUTER,
                                     IF scores[COMPUTER] + 1 >= RoundsToWin
                                     THEN COMPUTER ELSE NULL)
                 /\ IF currentItemType = MOVIE
                    THEN usedActors' = usedActors \cup {proofItem} /\ UNCHANGED usedMovies
                    ELSE usedMovies' = usedMovies \cup {proofItem} /\ UNCHANGED usedActors
                 /\ UNCHANGED <<difficulty, currentPlayer, currentItemType, currentItem,
                                roundNumber, accepted>>
            ELSE _endRound("humanChallenge", HUMAN,
                           "Challenge successful! Computer had no valid answer.", NULL)

\* state passes through CHALLENGE_PENDING and _endRound overwrites it before
\* the call returns
humanChallenge ==
    IF state # PLAYING
    THEN Illegal("humanChallenge")
    ELSE IF currentPlayer # HUMAN
    THEN Illegal("humanChallenge")
    ELSE \E proofItem \in (IF currentItemType = MOVIE
                           THEN _computerFindProofActor
                           ELSE _computerFindProofMovie) :
            IF proofItem # NULL
            THEN _endRound("humanChallenge", COMPUTER, "Challenge failed! Computer proves",
                           proofItem)
            ELSE _endRound("humanChallenge", HUMAN,
                           "Challenge successful! Computer had no valid answer.", NULL)

(***************************************************************************)
(* getState                                                                *)
(***************************************************************************)
\* the object getState builds: the scalar fields as they are, scores as a new
\* object, the used-sets spread into new arrays (here: their elements)
Snapshot ==
    [state |-> state, currentPlayer |-> currentPlayer,
     currentItemType |-> currentItemType, currentItem |-> currentItem,
     scores |-> scores, roundNumber |-> roundNumber, roundsToWin |-> RoundsToWin,
     usedActors |-> usedActors, usedMovies |-> usedMovies,
     winner |-> winner, difficulty |-> difficulty,
     lastMoveMessage |-> lastMoveMessage]

\* variant: reading the state hands out the used-sets and empties them
getState_Drains ==
    /\ result' = [op |-> "getState", success |-> TRUE, kind |-> "state",
                  matchedItem |-> NULL, startingItem |-> NULL, proofItem |-> NULL,
                  roundWinner |-> NULL, gameWinner |-> NULL,
                  snapshot |-> Snapshot]
    /\ usedActors' = {}
    /\ usedMovies' = {}
    /\ UNCHANGED <<difficulty, state, currentPlayer, currentItemType, currentItem,
                   scores, roundNumber, winner, lastMoveMessage, accepted>>

\* getState: legal in every phase; returns the snapshot and assigns nothing
getState ==
    /\ result' = [op |-> "getState", success |-> TRUE, kind |-> "state",
                  matchedItem |-> NULL, startingItem |-> NULL, proofItem |-> NULL,
                  roundWinner |-> NULL, gameWinner |-> NULL,
                  snapshot |-> Snapshot]
    /\ UNCHANGED <<difficulty, state, currentPlayer, currentItemType, currentItem,
                   usedActors, usedMovies, scores, roundNumber, winner,
                   lastMoveMessage, accepted>>

(***************************************************************************)
(* Inputs and the specification                                            *)
(***************************************************************************)
\* the texts a player types
Inputs ==
    { <<>>,
      <<" ", "\t">>,
      <<"z", "z", "z">>,
      <<"a", "b", "e">>,
      <<" ", "A", "b", "e", " ", " ", "c", "o", "x">>,
      <<"d", "i", "x">>,
      <<"b", "o", "-", "l", "i">>,
      <<"b", "o", "l", "i">>,
      <<"c", "y", " ", "n", "g">>,
      <<"d", "e", "e">>,
      <<"u", "p">>,
      <<"o", "d", "d">>,
      <<"o", "d", "d", " ", "d", "u", "o">>,
      <<"j", "o", "b">>,
      <<"o", "l", "d", " ", "g", "a", "g">>,
      <<"-">> }

\* a single session: there is no other instance to dispatch to
Alone == UNCHANGED <<peer, focus, calls, others>>

Next ==
    \/ startGame /\ Alone
    \/ restart /\ Alone
    \/ nextRound /\ Alone
    \/ \E input \in Inputs : humanMove(input) /\ Alone
    \/ computerMove /\ Alone
    \/ humanChallenge /\ Alone
    \/ getState /\ Alone

Spec == Init /\ [][Next]_vars

(***************************************************************************)
(* The engine on a store whose queries may throw.  A throwing query ends   *)
(* the call where it stands: the assignments made before it are kept.      *)
(***************************************************************************)
\* what the caller of an aborted call gets: the exception
Thrown(op) == Result(op, FALSE, THROWN, NULL, NULL, NULL)

\* startGame / restart: the random start query of startRound throws
startGameAborts(op) ==
    /\ state' = PLAYING
    /\ roundNumber' = 1
    /\ scores' = [p \in PLAYER |-> 0]
    /\ winner' = NULL
    /\ currentPlayer' = NULL
    /\ currentItemType' = NULL
    /\ currentItem' = NULL
    /\ lastMoveMessage' = <<NULL, NULL>>
    /\ usedActors' = {}
    /\ usedMovies' = {}
    /\ accepted' = <<>>
    /\ result' = Thrown(op)
    /\ UNCHANGED difficulty

\* nextRound: the random start query of startRound throws
nextRoundAborts ==
    /\ state = ROUND_OVER
    /\ roundNumber' = roundNumber + 1
    /\ state' = PLAYING
    /\ usedActors' = {}
    /\ usedMovies' = {}
    /\ accepted' = <<>>
    /\ result' = Thrown("nextRound")
    /\ UNCHANGED <<difficulty, currentPlayer, currentItemType, currentItem, scores,
                   winner, lastMoveMessage>>

\* humanMove: the substring query or the connectivity query throws
humanMoveAborts(input) ==
    /\ state = PLAYING
    /\ currentPlayer = HUMAN
    /\ _normalizeInput(input) # <<>>
    /\ result' = Thrown("humanMove")
    /\ UNCHANGED <<difficulty, state, currentPlayer, currentItemType, currentItem,
                   usedActors, usedMovies, scores, roundNumber, winner,
                   lastMoveMessage, accepted>>

\* computerMove: the candidate query throws
computerMoveAborts ==
    /\ state = PLAYING
    /\ currentPlayer = COMPUTER
    /\ result' = Thrown("computerMove")
    /\ UNCHANGED <<difficulty, state, currentPlayer, currentItemType, currentItem,
                   usedActors, usedMovies, scores, roundNumber, winner,
                   lastMoveMessage, accepted>>

\* humanChallenge: the proof query throws after the phase was set
humanChallengeAborts ==
    /\ state = PLAYING
    /\ currentPlayer = HUMAN
    /\ state' = CHALLENGE_PENDING
    /\ result' = Thrown("humanChallenge")
    /\ UNCHANGED <<difficulty, currentPlayer, currentItemType, currentItem,
                   usedActors, usedMovies, scores, roundNumber, winner,
                   lastMoveMessage, accepted>>

StoreFailsNext ==
    \/ Next
    \/ startGameAborts("startGame") /\ Alone
    \/ startGameAborts("restart") /\ Alone
    \/ nextRoundAborts /\ Alone
    \/ \E input \in Inputs : humanMoveAborts(input) /\ Alone
    \/ computerMoveAborts /\ Alone
    \/ humanChallengeAborts /\ Alone

SpecStoreFails == Init /\ [][StoreFailsNext]_vars

(***************************************************************************)
(* Two sessions on one read-only store handle                              *)
(***************************************************************************)
\* the fields of the instance in focus
Own ==
    [difficulty |-> difficulty, state |-> state, currentPlayer |-> currentPlayer,
     currentItemType |-> currentItemType, currentItem |-> currentItem,
     usedActors |-> usedActors, usedMovies |-> usedMovies,
     scores |-> scores, roundNumber |-> roundNumber, winner |-> winner,
     lastMoveMessage |-> lastMoveMessage, accepted |-> accepted]

\* variant: the used-sets are one pair of objects shared by all instances
OtherInstance_SharedSets(p) ==
    [p EXCEPT !.usedActors = usedActors', !.usedMovies = usedMovies']

\* what a call on the instance in focus leaves of another instance p: every
\* assignment of the engine is to a field of this, and _resetState and the
\* constructor give each instance its own Set and scores objects
OtherInstance(p) == p

\* the server hands a call to the game in focus
Dispatch ==
    /\ calls < MaxCalls
    /\ calls' = calls + 1
    /\ peer' = OtherInstance(peer)
    /\ focus' = focus
    /\ UNCHANGED others

\* the next event belongs to the other game: games.get(gameId) yields the
\* other instance, whose fields are as its last call left them
Switch ==
    /\ difficulty' = peer.difficulty
    /\ state' = peer.state
    /\ currentPlayer' = peer.currentPlayer
    /\ currentItemType' = peer.currentItemType
    /\ currentItem' = peer.currentItem
    /\ usedActors' = peer.usedActors
    /\ usedMovies' = peer.usedMovies
    /\ scores' = peer.scores
    /\ roundNumber' = peer.roundNumber
    /\ winner' = peer.winner
    /\ lastMoveMessage' = peer.lastMoveMessage
    /\ accepted' = peer.accepted
    /\ peer' = Own
    /\ focus' = 3 - focus
    /\ UNCHANGED <<result, calls, others>>

\* two new instances, each constructed with a difficulty of its own
SessionsInit ==
    /\ difficulty \in DIFFICULTY
    /\ state = IDLE
    /\ currentPlayer = NULL
    /\ currentItemType = NULL
    /\ currentItem = NULL
    /\ usedActors = {}
    /\ usedMovies = {}
    /\ scores = [p \in PLAYER |-> 0]
    /\ roundNumber = 0
    /\ winner = NULL
    /\ lastMoveMessage = <<NULL, NULL>>
    /\ result = NoResult
    /\ accepted = <<>>
    /\ peer \in {NewGame(d) : d \in DIFFICULTY}
    /\ focus = 1
    /\ calls = 0
    /\ search = NoSearch
    /\ tmdb = NoTmdb
    /\ web = NoWeb
    /\ server = NoServer

SessionsNext ==
    \/ startGame /\ Dispatch
    \/ restart /\ Dispatch
    \/ nextRound /\ Dispatch
    \/ \E input \in Inputs : humanMove(input) /\ Dispatch
    \/ computerMove /\ Dispatch
    \/ humanChallenge /\ Dispatch
    \/ getState /\ Dispatch
    \/ Switch

SpecSessions == SessionsInit /\ [][SessionsNext]_vars

(***************************************************************************)
(* The resolver on its own: calls of searchActors and searchMovies on a    *)
(* store in which any of the queries may throw                             *)
(***************************************************************************)
\* the texts passed to the resolver: those a player types in the game and
\* some with punctuation between words
SearchInputs ==
    Inputs \cup
    { <<"a", "b", "e", ",", " ", "c", "o", "x">>,
      <<"o", "d", "d", "-", "j", "o", "b", " ", "u", "p">>,
      <<"c", "y", ".", " ", "n", "g">>,
      <<"-", " ", "-">> }

\* the queries a call for this text can issue
StoreQueries(query) ==
    {<<"fts", q>> : q \in Range(_toFtsQueries(_normalizeInput(query)))}
        \cup {<<"like", _normalizeForLike(query)>>}

\* one call searchActors(query, limit) or searchMovies(query, limit)
Search(kind, query, limit) ==
    /\ \E fails \in SUBSET StoreQueries(query) :
       \E run \in SearchRun(kind, query, limit, fails) :
          search' = [kind |-> kind, query |-> query, limit |-> limit,
                     log |-> run.log, out |-> run.out]
    /\ UNCHANGED <<engine, peer, focus, calls, tmdb, web, server>>

\* limit is 5 in humanMove and 10 by default
SearchNext ==
    \E kind \in {ACTOR, MOVIE} : \E query \in SearchInputs : \E limit \in {5, 10} :
        Search(kind, query, limit)

\* the resolver reads no field of the instance but the statements
SearchInit == Init /\ difficulty = "medium"

SpecSearch == SearchInit /\ [][SearchNext]_vars

(***************************************************************************)
(* Properties                                                              *)
(***************************************************************************)
\* the fields of the session a caller can observe through getState
session == <<state, currentPlayer, currentItemType, currentItem, usedActors,
             usedMovies, scores, roundNumber, winner>>

\* the unrestricted relation: a is credited as cast of m
Credited(a, m) ==
    \E tp \in title_principals :
        tp.nconst = a /\ tp.tconst = m /\ tp.category \in ActorCategory

\* the step is a move (human or computer) that was accepted
MoveAccepted == result'.kind \in {"valid", "picked"}

NoDuplicates(seq) == \A i, j \in 1..Len(seq) : seq[i] = seq[j] => i = j

\* C1: every accepted move names an id that was in neither used-set before
\* the move, and the ids accepted since the round was started are pairwise
\* different.
C1_NoRepeat ==
    /\ [][MoveAccepted =>
            /\ result'.matchedItem \notin (usedActors \cup usedMovies)
            /\ result'.matchedItem \in (usedActors' \cup usedMovies')
            /\ accepted' = Append(accepted, result'.matchedItem)]_vars
    /\ [](NoDuplicates(accepted))

\* C1 witness: a round with three accepted moves, the human having been
\* refused an id that is already used
C1_Witness == Len(accepted) >= 3 /\ result.kind = "already_used"

\* C2: whenever a current entity is set, its id is in the used-set of its
\* kind.
C2_CurrentInUsed ==
    currentItem # NULL =>
        /\ currentItemType = ACTOR => currentItem \in usedActors
        /\ currentItemType = MOVIE => currentItem \in usedMovies

\* the edge between the current entity and x, oriented as (actor, movie)
EdgeToCurrent(x) ==
    IF currentItemType = MOVIE THEN <<x, currentItem>> ELSE <<currentItem, x>>

CreditedToCurrent(x) == Credited(EdgeToCurrent(x)[1], EdgeToCurrent(x)[2])

UsedOfNextKind == IF currentItemType = MOVIE THEN usedActors ELSE usedMovies

\* the possible result lists of the resolver for the kind the human must name
Resolved(input) ==
    IF currentItemType = MOVIE
    THEN searchActors(_normalizeInput(input), 5)
    ELSE searchMovies(_normalizeInput(input), 5)

\* C3: on the human's turn the outcomes of humanMove for an input are the
\* same under every difficulty profile, and an input that resolves to one
\* unused entity credited with the current entity is accepted, whatever the
\* billing order, year and votes of that credit.
C3_ValidationIgnoresDifficulty ==
    (state = PLAYING /\ currentPlayer = HUMAN) =>
        \A input \in Inputs :
            /\ \A d \in DIFFICULTY :
                   humanMoveOutcomes(DIFFICULTY_CONFIG[d], input)
                       = humanMoveOutcomes(config, input)
            /\ \A x \in Actors \cup Titles :
                   (/\ Resolved(input) = {<<x>>}
                    /\ CreditedToCurrent(x)
                    /\ x \notin UsedOfNextKind)
                   => humanMoveOutcomes(config, input) = {Outcome("valid", x)}

\* C3 witness: on Easy the human was accepted with an actor billed 12th, or
\* on Hard with a film below the vote floor
C3_Witness ==
    /\ result.kind = "valid"
    /\ \/ difficulty = "easy" /\ result.matchedItem = "a3" /\ "m1" \in usedMovies
       \/ difficulty = "hard" /\ result.matchedItem = "m4"

Other(kind) == IF kind = MOVIE THEN ACTOR ELSE MOVIE

\* C4: a valid human move is made on the human's turn in Playing, makes the
\* named entity current, flips the kind, adds the id to the matching
\* used-set and leaves the session Playing with the Computer to move; while
\* the Computer is to move only computerMove or a restart changes the
\* session.
C4_ValidHumanMove ==
    /\ [][(result'.op = "humanMove" /\ result'.kind = "valid") =>
            /\ state = PLAYING /\ currentPlayer = HUMAN
            /\ currentItem' = result'.matchedItem
            /\ currentItemType' = Other(currentItemType)
            /\ IF currentItemType' = ACTOR
               THEN /\ usedActors' = usedActors \cup {currentItem'}
                    /\ usedMovies' = usedMovies
               ELSE /\ usedMovies' = usedMovies \cup {currentItem'}
                    /\ usedActors' = usedActors
            /\ currentPlayer' = COMPUTER
            /\ state' = PLAYING
            /\ scores' = scores /\ roundNumber' = roundNumber /\ winner' = winner]_vars
    /\ [][(state = PLAYING /\ currentPlayer = COMPUTER
             /\ result'.op \notin {"computerMove", "startGame", "restart"})
            => session' = session]_vars

\* C4 witness: the human's move was accepted and the Computer is to move
C4_Witness ==
    /\ result.op = "humanMove" /\ result.kind = "valid"
    /\ state = PLAYING /\ currentPlayer = COMPUTER /\ currentItem = result.matchedItem

\* C5: a humanMove that returns a rejection (empty input, not found, not
\* connected, already used) leaves the session as it was.
C5_RejectedMoveKeepsTurn ==
    [][(result'.op = "humanMove"
          /\ result'.kind \in {"invalid_name", "not_found", "not_connected", "already_used"})
        => /\ session' = session
           /\ lastMoveMessage' = lastMoveMessage
           /\ result'.success = FALSE]_vars

\* C5 witness: a not-connected rejection was returned and the Human is
\* still to move
C5_Witness ==
    /\ result.op = "humanMove" /\ result.kind = "not_connected"
    /\ state = PLAYING /\ currentPlayer = HUMAN

\* the unused entities adjacent to the current entity that pass the
\* profile's filters for their kind: an actor by the billing of its credit,
\* a film by billing, year and votes
EligibleContinuations ==
    IF currentItemType = MOVIE
    THEN {a \in Actors \ usedActors :
            \E tp \in title_principals :
                /\ tp.nconst = a /\ tp.tconst = currentItem
                /\ tp.category \in ActorCategory
                /\ tp.ordering <= config.maxOrdering}
    ELSE {m \in Titles \ usedMovies :
            \E tp \in title_principals :
                /\ tp.nconst = currentItem /\ tp.tconst = m
                /\ tp.category \in ActorCategory
                /\ tp.ordering <= config.maxOrdering
                /\ title_basics[m].title_type = "movie"
                /\ title_basics[m].start_year >= config.minYear
                /\ CoalesceVotes(m) >= config.minVotes}

\* the step ended the round for roundWinner
RoundEndsFor(roundWinner) ==
    /\ result'.kind = "round_end"
    /\ result'.roundWinner = roundWinner
    /\ state' \in {ROUND_OVER, GAME_OVER}
    /\ scores' = [scores EXCEPT ![roundWinner] = scores[roundWinner] + 1]

ProfileEdge(a, m) ==
    \E tp \in title_principals :
        /\ tp.nconst = a /\ tp.tconst = m
        /\ tp.category \in ActorCategory
        /\ tp.ordering <= config.maxOrdering
        /\ title_basics[m].title_type = "movie"
        /\ title_basics[m].start_year >= config.minYear
        /\ CoalesceVotes(m) >= config.minVotes

\* the unused entities joined to the current entity by an edge of the profile
KnownContinuations ==
    {x \in (Actors \cup Titles) \ (usedActors \cup usedMovies) :
        ProfileEdge(EdgeToCurrent(x)[1], EdgeToCurrent(x)[2])}

\* C7: a challenge on the human's turn in Playing ends the round; the
\* Computer wins it exactly when the current entity has an unused neighbour
\* within the profile, and then the proof item is such a neighbour;
\* otherwise the Human wins it.
C7_ChallengeAdjudication ==
    [][(state = PLAYING /\ currentPlayer = HUMAN /\ result'.op = "humanChallenge") =>
        IF KnownContinuations # {}
        THEN RoundEndsFor(COMPUTER) /\ result'.proofItem \in KnownContinuations
        ELSE RoundEndsFor(HUMAN) /\ result'.proofItem = NULL]_vars

\* C7 witness: the Human won a challenge while the current entity still had
\* an unused credit outside the profile
C7_Witness ==
    /\ result.op = "humanChallenge" /\ result.roundWinner = HUMAN
    /\ \E x \in Actors \cup Titles :
          CreditedToCurrent(x) /\ x \notin usedActors \cup usedMovies

\* what the proof search returns for the current entity
ProofSearch ==
    IF currentItemType = MOVIE THEN _computerFindProofActor ELSE _computerFindProofMovie

\* C8: every witness the proof search can return on the human's turn, and
\* every proof item a challenge returned, is credited with the current
\* entity in the full graph and is in neither used-set.
C8_ProofIsValidAndUnused ==
    /\ (state = PLAYING /\ currentPlayer = HUMAN) =>
          \A w \in ProofSearch \ {NULL} :
              CreditedToCurrent(w) /\ w \notin usedActors \cup usedMovies
    /\ (result.op = "humanChallenge" /\ result.proofItem # NULL) =>
          /\ CreditedToCurrent(result.proofItem)
          /\ result.proofItem \notin usedActors \cup usedMovies

\* C8 witness: a challenge returned a proof item
C8_Witness ==
    /\ result.op = "humanChallenge" /\ result.proofItem # NULL
    /\ usedActors # {} /\ usedMovies # {}

\* the candidate lists the computer's pick would build in this state
PickCandidates ==
    IF currentItemType = MOVIE THEN ComputerActorCandidates ELSE ComputerMovieCandidates

\* C9: in every state with a current entity the proof search has a witness
\* exactly when the computer's pick has a candidate, and the witnesses are
\* the entities the pick can rank.
C9_ProofMatchesPick ==
    currentItem # NULL =>
        /\ (ProofSearch # {NULL}) <=> (\E c \in PickCandidates : Len(c) > 0)
        /\ ProofSearch \ {NULL} = UNION {Range(c) : c \in PickCandidates}

\* C9 witness: both find nothing although the full graph has an unused credit
C9_Witness ==
    /\ state = PLAYING /\ currentItem # NULL
    /\ ProofSearch = {NULL}
    /\ \E x \in Actors \cup Titles :
          CreditedToCurrent(x) /\ x \notin usedActors \cup usedMovies

\* C10: when a round ends the winner's score grows by one; the phase becomes
\* GameOver with that winner recorded exactly when the new score has reached
\* roundsToWin, and RoundOver with no winner recorded when it is below.
C10_WinBoundary ==
    [][result'.kind = "round_end" =>
        LET w == result'.roundWinner
        IN  /\ scores'[w] = scores[w] + 1
            /\ (scores'[w] >= RoundsToWin) <=> (state' = GAME_OVER)
            /\ state' = GAME_OVER => (winner' = w /\ result'.gameWinner = w)
            /\ scores'[w] < RoundsToWin =>
                 (state' = ROUND_OVER /\ winner' = NULL /\ result'.gameWinner = NULL)]_vars

\* C10 witness: the game was won at exactly roundsToWin after rounds that
\* ended in RoundOver
C10_Witness ==
    /\ state = GAME_OVER /\ winner = HUMAN
    /\ scores[HUMAN] = RoundsToWin /\ scores[COMPUTER] = RoundsToWin - 1

(***************************************************************************)
(* C11: illegal calls are rejected without effect.  humanMove or           *)
(* humanChallenge when the phase is not Playing or the turn owner is not   *)
(* Human, computerMove when the phase is not Playing or the turn owner is  *)
(* not Computer, and nextRound when the phase is not RoundOver each return *)
(* a failure and leave the whole session state unchanged.                  *)
(***************************************************************************)
IllegalCall(op) ==
    CASE op \in {"humanMove", "humanChallenge"} ->
             state # PLAYING \/ currentPlayer # HUMAN
      [] op = "computerMove" -> state # PLAYING \/ currentPlayer # COMPUTER
      [] op = "nextRound" -> state # ROUND_OVER
      [] OTHER -> FALSE

C11_IllegalCallsRejected ==
    [][IllegalCall(result'.op)
          => /\ result'.success = FALSE
             /\ session' = session]_vars

\* the human's move was rejected as illegal while the computer was to move
C11_Witness ==
    /\ result.kind = "illegal" /\ result.op = "humanMove"
    /\ state = PLAYING /\ currentPlayer = COMPUTER

(***************************************************************************)
(* C12: round start resets round state.  A successful nextRound is taken   *)
(* from RoundOver, increments the round number by exactly one and          *)
(* re-enters Playing; after any successful round start (startGame,         *)
(* restart or nextRound) the two used-sets together hold exactly the new   *)
(* starting entity's id, the current entity is that starting entity, and   *)
(* the Human is the turn owner.                                            *)
(***************************************************************************)
C12_RoundStartResets ==
    [][(result'.kind = "start" /\ result'.success)
          => /\ usedActors' \cup usedMovies' = {result'.startingItem}
             /\ (currentItemType' = ACTOR) = (usedActors' # {})
             /\ currentItem' = result'.startingItem
             /\ currentPlayer' = HUMAN
             /\ state' = PLAYING
             /\ (result'.op = "nextRound"
                    => state = ROUND_OVER /\ roundNumber' = roundNumber + 1)]_vars

\* a second round has started, by nextRound, after the first round was scored
C12_Witness ==
    /\ result.kind = "start" /\ result.op = "nextRound"
    /\ roundNumber = 2 /\ state = PLAYING
    /\ scores[HUMAN] + scores[COMPUTER] = 1

PhaseStep ==
    \/ state' = state
    \/ /\ state' = PLAYING
       /\ result'.op \in {"startGame", "restart"}
    \/ /\ state = PLAYING /\ state' \in {ROUND_OVER, GAME_OVER}
       /\ result'.op \in {"computerMove", "humanChallenge"}
       /\ result'.kind = "round_end"
    \/ /\ state = ROUND_OVER /\ state' = PLAYING
       /\ result'.op = "nextRound"

RoundActive == currentItem # NULL /\ currentPlayer # NULL

C14_PhaseMachine ==
    [][/\ PhaseStep
       /\ ~(state = ROUND_OVER /\ state' = GAME_OVER)
       /\ ~(state = GAME_OVER /\ state' = ROUND_OVER)
       /\ (RoundActive' => state' = PLAYING)]_vars

(***************************************************************************)
(* C15: a failed round start leaves a dead round.  If a round start (in    *)
(* startGame or nextRound) finds no entity satisfying the round-start      *)
(* thresholds, the call returns a failure, and until a later round start   *)
(* succeeds no humanMove, computerMove or humanChallenge is accepted and   *)
(* no score changes.                                                       *)
(***************************************************************************)
\* A started round holds its starting entity and one entity per accepted
\* move in the used-sets; after a failed start they hold one entity less.
DeadRound ==
    /\ state # IDLE
    /\ Cardinality(usedActors \cup usedMovies) = Len(accepted)

C15_FailedStartIsDead ==
    [][/\ (result'.kind = "start_failed" => ~result'.success /\ DeadRound')
       /\ (DeadRound /\ result'.op \in {"humanMove", "computerMove", "humanChallenge"}
              => /\ ~result'.success
                 /\ scores' = scores
                 /\ DeadRound')]_vars

(***************************************************************************)
(* C16: difficulty restricts the computer's selection.  Every entity the   *)
(* computer names in computerMove, and every challenge witness, is reached *)
(* from the current entity over an edge with billing order at most the     *)
(* profile's maxOrdering to a movie whose year is at least the profile's   *)
(* minYear and whose votes are at least its minVotes, both when a movie is *)
(* named for an actor and when an actor is named for a movie.              *)
(***************************************************************************)
C16_SelectionWithinProfile ==
    [][/\ (result'.kind = "picked"
              => ProfileEdge(EdgeToCurrent(result'.matchedItem)[1],
                             EdgeToCurrent(result'.matchedItem)[2]))
       /\ (result'.op = "humanChallenge" /\ result'.proofItem # NULL
              => ProfileEdge(EdgeToCurrent(result'.proofItem)[1],
                             EdgeToCurrent(result'.proofItem)[2]))]_vars

(***************************************************************************)
(* C17: selection is a subset of validity.  Every candidate the computer   *)
(* can pick or offer as proof for the current entity forms with it an      *)
(* (actor, movie) pair that passes the validation used for human moves.    *)
(***************************************************************************)
C17_SelectionIsValid ==
    currentItem # NULL =>
        \A x \in (ProofSearch \ {NULL}) \cup UNION {Range(c) : c \in PickCandidates} :
            _validateActorInMovie(config, EdgeToCurrent(x)[1], EdgeToCurrent(x)[2])

\* the current movie has candidates and also an unused person credited in it
\* outside the acting categories
C17_Witness ==
    /\ state = PLAYING /\ currentItemType = MOVIE
    /\ ProofSearch # {NULL}
    /\ \E tp \in title_principals :
          /\ tp.tconst = currentItem
          /\ tp.category \notin ActorCategory
          /\ tp.ordering <= config.maxOrdering
          /\ tp.nconst \notin usedActors

(***************************************************************************)
(* C18: profiles are nested.  For the same graph, current entity and       *)
(* used-sets, the computer's candidates under Easy are among those under   *)
(* Medium, which are among those under Hard; so a challenge the computer   *)
(* wins under Easy it also wins under Medium and Hard, and one state can   *)
(* give the Human the round under Easy and the Computer under Hard.        *)
(***************************************************************************)
\* the rows the computer's statements select for the current entity and
\* used-sets when the session's profile is that of difficulty d
CandidatesUnder(d) ==
    LET cfg == DIFFICULTY_CONFIG[d]
    IN  IF currentItemType = MOVIE
        THEN stmtComputerPickActorBase(currentItem, cfg.maxOrdering, usedActors)
        ELSE stmtComputerPickMovieBase(currentItem, cfg.maxOrdering, cfg.minYear,
                                       cfg.minVotes, usedMovies)

C18_ProfilesNested ==
    currentItem # NULL =>
        /\ CandidatesUnder("easy") \subseteq CandidatesUnder("medium")
        /\ CandidatesUnder("medium") \subseteq CandidatesUnder("hard")
        /\ ProofSearch \ {NULL} = CandidatesUnder(difficulty)

\* a challenge is due that the Human wins under Easy and loses under Hard
C18_Witness ==
    /\ state = PLAYING /\ currentPlayer = HUMAN
    /\ CandidatesUnder("easy") = {}
    /\ CandidatesUnder("hard") # {}

(***************************************************************************)
(* C19: getState is a pure read.  A call of getState changes nothing in    *)
(* the session, and calls of getState with no mutating call between them   *)
(* return equal snapshots.                                                 *)
(***************************************************************************)
C19_GetStateIsPure ==
    [][result'.op = "getState"
          => /\ session' = session
             /\ <<difficulty, lastMoveMessage>>' = <<difficulty, lastMoveMessage>>
             /\ Snapshot' = Snapshot
             /\ result'.snapshot = Snapshot'
             /\ (result.op = "getState" => result'.snapshot = result.snapshot)]_vars

\* getState has been called in the middle of a round with both used-sets filled
C19_Witness ==
    /\ result.op = "getState"
    /\ state = PLAYING
    /\ result.snapshot.usedActors # {} /\ result.snapshot.usedMovies # {}
    /\ result.snapshot.currentItem = currentItem

(***************************************************************************)
(* C20: sessions are independent.  For any interleaving of calls on two    *)
(* sessions that share one read-only store handle, no call on one session  *)
(* changes the other session's state, so each session's state is what its  *)
(* own calls alone have made it.                                           *)
(***************************************************************************)
\* the fields of session i, wherever they are held
SessionState(i) == IF focus = i THEN Own ELSE peer

C25_RoundEndCreditsOnePoint ==
    [][result'.kind = "round_end"
          => /\ result'.roundWinner \in PLAYER
             /\ scores' = [scores EXCEPT ![result'.roundWinner] = @ + 1]
             /\ usedActors' = usedActors /\ usedMovies' = usedMovies
             /\ currentItem' = currentItem /\ currentItemType' = currentItemType
             /\ roundNumber' = roundNumber
             /\ (result'.proofItem # NULL
                    => result'.proofItem \notin usedActors' \cup usedMovies')]_vars

\* a challenge has just been answered with a witness
C25_Witness ==
    /\ result.kind = "round_end" /\ result.op = "humanChallenge"
    /\ result.proofItem # NULL
    /\ scores[COMPUTER] = 1 /\ scores[HUMAN] = 1

(***************************************************************************)
(* C26: top-K selection.  The entity the computer names is always one of   *)
(* the 3 highest-ranked eligible candidates by the breadth proxy (career   *)
(* size for actors; cast size, then votes, for movies), or one of all of   *)
(* them when fewer than 3 exist; each of those top candidates can be       *)
(* chosen, and a candidate ranked 4th or lower is never named.             *)
(***************************************************************************)
BreadthKey == IF currentItemType = MOVIE THEN career_size_key ELSE cast_size_key

\* the eligible candidates ranked strictly above x
RankedAbove(x) ==
    {y \in EligibleContinuations :
        KeyGE(BreadthKey[y], BreadthKey[x]) /\ BreadthKey[y] # BreadthKey[x]}

\* the candidates with fewer than 3 candidates ranked above them
TopK == {x \in EligibleContinuations : Cardinality(RankedAbove(x)) < 3}

C26_TopKSelection ==
    /\ [][result'.kind = "picked" => result'.matchedItem \in TopK]_vars
    /\ []((state = PLAYING /\ currentPlayer = COMPUTER)
             => \A x \in TopK :
                   ENABLED (computerMove /\ result'.kind = "picked"
                               /\ result'.matchedItem = x))

\* the computer has named a5 for Odd Duo while a6, ranked fourth, was unused
C26_Witness ==
    /\ result.kind = "picked" /\ result.matchedItem = "a5"
    /\ Len(accepted) >= 2 /\ accepted[Len(accepted) - 1] = "m2"
    /\ usedActors = {"a1", "a5"}

(***************************************************************************)
(* C27: the not-connected outcome is decided by the best-ranked match.     *)
(* When the resolver's best-ranked candidate for the input is not          *)
(* connected to the current entity, humanMove returns the not-connected    *)
(* outcome and the turn is not consumed.                                   *)
(***************************************************************************)
\* the outcome humanMove has when the resolver returned this list
OutcomeFor(list) ==
    IF currentItemType = MOVIE
    THEN PickActorFrom(config, list)
    ELSE PickMovieFrom(config, list)

NotConnectedKeepsTurn ==
    [][(result'.op = "humanMove" /\ result'.kind = "not_connected")
          => session' = session]_vars

C27_BestRankedDecides ==
    /\ NotConnectedKeepsTurn
    /\ []((state = PLAYING /\ currentPlayer = HUMAN)
            => \A input \in Inputs : \A list \in Resolved(input) :
                  (Len(list) > 0 /\ ~CreditedToCurrent(list[1]))
                      => OutcomeFor(list) = Outcome("not_connected", list[1]))

\* C27 as the code has it: the not-connected outcome is returned exactly
\* when the resolver found candidates and none of them is connected to the
\* current entity, and it then carries the best-ranked candidate; when some
\* candidate is connected, the first connected one in rank order decides
\* between valid and already-used.  The not-connected outcome does not
\* consume the turn.
C27_NoCandidateConnected ==
    /\ NotConnectedKeepsTurn
    /\ []((state = PLAYING /\ currentPlayer = HUMAN)
            => \A input \in Inputs : \A list \in Resolved(input) :
                  LET connected == {i \in 1..Len(list) : CreditedToCurrent(list[i])}
                  IN  /\ (Len(list) > 0 /\ connected = {})
                            <=> OutcomeFor(list).kind = "not_connected"
                      /\ (Len(list) > 0 /\ connected = {})
                            => OutcomeFor(list).matchedItem = list[1]
                      /\ \A i \in connected :
                            (\A j \in connected : i <= j)
                                => /\ OutcomeFor(list).kind \in {"valid", "already_used"}
                                   /\ OutcomeFor(list).matchedItem = list[i])

\* the human was just told not-connected, and another input at hand resolves
\* to a list whose best-ranked entry is not connected but which is accepted
C27_Witness ==
    /\ result.op = "humanMove" /\ result.kind = "not_connected"
    /\ state = PLAYING /\ currentPlayer = HUMAN
    /\ \E input \in Inputs : \E list \in Resolved(input) :
          /\ Len(list) >= 2
          /\ ~CreditedToCurrent(list[1])
          /\ OutcomeFor(list).kind = "valid"

(***************************************************************************)
(* scripts/rebuild_tmdb.js: the enrichment of title_principals from a TMDB *)
(* file                                                                    *)
(***************************************************************************)
\* rows buffered before a flush (1000 in the script)
BatchSize == 2

\* longest TMDB file
MaxRows == 2

\* normalizeName
normalizeName(name) == Trim(CollapseSpaces(toLowerCase(name)))

\* parseCastNames on the pieces of the comma-separated cast string
parseCastNames(cast) ==
    LET trimmed == [i \in 1..Len(cast) |-> Trim(cast[i])]
        Kept(name) == Len(name) > 0 /\ Len(name) < 100
    IN  SelectSeq(trimmed, Kept)

\* SELECT nconst, primary_name FROM name_basics, in the order of the table
allNames == <<"a1", "a2", "a3", "a4", "a5", "a6">>

\* the normalized names of the rows, in that order
normalizedNames == [i \in 1..Len(allNames) |-> normalizeName(name_basics[allNames[i]])]

\* nameCache.get: the first row with this normalized name
nameCacheGet(normalized) ==
    LET Hit(i) == normalizedNames[i] = normalized
    IN  IF \E i \in 1..Len(allNames) : Hit(i)
        THEN allNames[CHOOSE i \in 1..Len(allNames) :
                          Hit(i) /\ \A j \in 1..(i - 1) : ~Hit(j)]
        ELSE NULL

\* findMovieByImdbId
findMovieByImdbId(imdbId) == imdbId \in DOMAIN title_basics

\* variant: a link is never found in the table
checkExistingLink_Never(table, tconst, nconst) == FALSE

\* checkExistingLink
checkExistingLink(table, tconst, nconst) ==
    \E r \in table : r.tconst = tconst /\ r.nconst = nconst

\* getMaxOrdering: COALESCE(MAX(ordering), 0)
getMaxOrdering(table, tconst) ==
    LET orderings == {r.ordering : r \in {x \in table : x.tconst = tconst}}
    IN  IF orderings = {} THEN 0
        ELSE CHOOSE o \in orderings : \A p \in orderings : p <= o

\* flushInserts followed by pendingInserts = []
flushInserts(st) ==
    [st EXCEPT !.table = @ \cup Range(st.pendingInserts), !.pendingInserts = <<>>]

\* the inner loop over the cast names of one movie
RECURSIVE ProcessCast(_, _, _)
ProcessCast(st, imdbId, castNames) ==
    IF castNames = <<>> THEN st
    ELSE
        LET nconst == nameCacheGet(normalizeName(Head(castNames)))
            rest == Tail(castNames)
        IN  IF nconst = NULL
            THEN ProcessCast([st EXCEPT !.actorsNotFound = @ + 1], imdbId, rest)
            ELSE IF <<imdbId, nconst>> \in st.processedPairs
            THEN ProcessCast(st, imdbId, rest)
            ELSE
                LET seen == [st EXCEPT !.processedPairs = @ \cup {<<imdbId, nconst>>}]
                IN  IF checkExistingLink(st.table, imdbId, nconst)
                    THEN ProcessCast([seen EXCEPT !.actorsAlreadyLinked = @ + 1],
                                     imdbId, rest)
                    ELSE
                        LET row == [tconst |-> imdbId, nconst |-> nconst,
                                    ordering |-> st.currentOrdering + 1,
                                    category |-> "actor"]
                            pushed == [seen EXCEPT
                                          !.currentOrdering = @ + 1,
                                          !.pendingInserts = Append(@, row),
                                          !.actorsAdded = @ + 1]
                        IN  ProcessCast(IF Len(pushed.pendingInserts) >= BatchSize
                                        THEN flushInserts(pushed) ELSE pushed,
                                        imdbId, rest)

\* the ids of the file that start with "tt"
TtIds == DOMAIN title_basics \cup {"m9"}

\* the outer loop over the rows of the file
RECURSIVE ProcessRows(_, _)
ProcessRows(st, rows) ==
    IF rows = <<>> THEN st
    ELSE
        LET row == Head(rows)
            counted == [st EXCEPT !.totalRows = @ + 1]
        IN  IF row.imdb_id \notin TtIds \/ row.cast = <<>>
            THEN ProcessRows(counted, Tail(rows))
            ELSE IF ~findMovieByImdbId(row.imdb_id)
            THEN ProcessRows(counted, Tail(rows))
            ELSE
                LET matched == [counted EXCEPT
                                   !.moviesMatched = @ + 1,
                                   !.currentOrdering =
                                       getMaxOrdering(st.table, row.imdb_id)]
                IN  ProcessRows(ProcessCast(matched, row.imdb_id,
                                            parseCastNames(row.cast)),
                                Tail(rows))

\* the rows a TMDB file is made of: imdb_id and the pieces of its cast string
TmdbRows ==
    { [imdb_id |-> "m1", cast |-> << <<"d", "e", "e">>, <<"e", "v", "e">> >>],
      [imdb_id |-> "m1", cast |-> << <<"A", "b", "e", " ", " ", "C", "O", "X">>,
                                     <<" ", "c", "y", " ", "n", "g", " ">> >>],
      [imdb_id |-> "m9", cast |-> << <<"d", "e", "e">> >>],
      [imdb_id |-> NULL, cast |-> << <<"d", "e", "e">> >>],
      [imdb_id |-> "m4", cast |-> << <<"d", "e", "e">>, <<"D", "E", "E">>,
                                     <<"z", "e", "d">>, <<" ">> >>],
      [imdb_id |-> "m3", cast |-> << <<"c", "y", " ", "n", "g">>,
                                     <<"e", "v", "e">> >>],
      [imdb_id |-> "m2", cast |-> <<>>] }

TmdbFiles == UNION {[1..n -> TmdbRows] : n \in 0..MaxRows}

\* one run of the script on the database as it is: main takes the file that
\* is in the data directory, so a later run reads the file of the first
enrichImdbWithTmdb(tmdbFile) ==
    LET start == [table |-> tmdb.table, pendingInserts |-> <<>>,
                  processedPairs |-> {}, currentOrdering |-> 0,
                  totalRows |-> 0, moviesMatched |-> 0, actorsAdded |-> 0,
                  actorsAlreadyLinked |-> 0, actorsNotFound |-> 0]
        looped == ProcessRows(start, tmdbFile)
        done == IF Len(looped.pendingInserts) > 0 THEN flushInserts(looped) ELSE looped
    IN  /\ tmdb.ran => tmdbFile = tmdb.file
        /\ tmdb' = [ran |-> TRUE,
                    again |-> tmdb.ran /\ tmdb.file = tmdbFile,
                    file |-> tmdbFile,
                    table |-> done.table,
                    stats |-> [totalRows |-> done.totalRows,
                               moviesMatched |-> done.moviesMatched,
                               actorsAdded |-> done.actorsAdded,
                               actorsAlreadyLinked |-> done.actorsAlreadyLinked,
                               actorsNotFound |-> done.actorsNotFound]]
        /\ UNCHANGED <<engine, peer, focus, calls, search, web, server>>

TmdbNext == \E tmdbFile \in TmdbFiles : enrichImdbWithTmdb(tmdbFile)

\* the script runs on the database the import has built
TmdbInit == Init /\ difficulty = "medium"

SpecTmdb == TmdbInit /\ [][TmdbNext]_vars

(***************************************************************************)
(* js/Game.js: the web wrapper.  processInput runs to completion; where it *)
(* makes a second engine call the step after the first call leaves         *)
(* web.at at that call, and no other input is taken until it is made.      *)
(***************************************************************************)
\* _respond: the output is returned and kept for a reconnecting client
Respond(w, out) ==
    [w EXCEPT !.at = "idle", !.output = out, !.lastOutput = out, !.pending = "none"]

\* a TypeError leaves processInput before _respond
Throw(w) == [w EXCEPT !.at = "idle", !.output = THROWN, !.pending = "none"]

\* a new call of processInput
Called == [web EXCEPT !.gaveUp = FALSE]

\* no engine call and no field of another component
WebOnly == UNCHANGED <<engine, peer, focus, calls, search, tmdb, server>>
WebAlone == UNCHANGED <<peer, focus, calls, search, tmdb, server>>

\* _formatStartMessage reads result.startingItem.start_year when the result
\* is not an actor start
StartMessageThrows(r) == r.startingItem = NULL

\* _formatComputerMove reads result.matchedItem of a successful result
ComputerMoveThrows(r) == r.success /\ r.matchedItem = NULL

\* _handleChallengeResult reads result.proofItem unless the human won
ChallengeResultThrows(r) == r.roundWinner # HUMAN /\ r.proofItem = NULL

\* processInput with nothing but whitespace
processInput_Blank(input) ==
    /\ web.at = "idle"
    /\ Trim(input) = <<>>
    /\ web' = Respond(Called, "please_enter")
    /\ WebOnly

\* _handleDifficultySelection; detected is detectDifficulty(input), and the
\* player asks for the difficulty this game is played at
_handleDifficultySelection(detected) ==
    /\ web.at = "idle"
    /\ web.phase = "difficulty"
    /\ IF detected = NULL
       THEN /\ web' = Respond(Called, "didnt_catch")
            /\ WebOnly
       ELSE /\ detected = difficulty
            /\ startGame
            /\ LET playing == [Called EXCEPT !.phase = "playing"]
               IN  web' = IF StartMessageThrows(result')
                          THEN Throw(playing)
                          ELSE Respond(playing, "start")
            /\ WebAlone

\* _handleGameInput, input "restart"
_handleGameInput_Restart ==
    /\ web.at = "idle"
    /\ web.phase = "playing"
    /\ web' = Respond([Called EXCEPT !.phase = "difficulty"], "welcome")
    /\ WebOnly

\* _handleGameInput, isChallenge(input): humanChallenge and the first part of
\* _handleChallengeResult
_handleGameInput_Challenge ==
    /\ web.at = "idle"
    /\ web.phase = "playing"
    /\ humanChallenge
    /\ web' = IF ChallengeResultThrows(result')
              THEN Throw(Called)
              ELSE IF result'.gameWinner # NULL
              THEN Respond([Called EXCEPT !.phase = "game_over"], "challenge_game_over")
              ELSE [Called EXCEPT !.at = "nextRound", !.pending = "challenge_next"]
    /\ WebAlone

\* _handleGameInput with an answer: humanMove
_handleGameInput_Answer(input) ==
    /\ web.at = "idle"
    /\ web.phase = "playing"
    /\ Trim(input) # <<>>
    /\ humanMove(input)
    /\ web' = IF ~result'.success
              THEN Respond(Called, "incorrect")
              ELSE [Called EXCEPT !.at = "computerMove"]
    /\ WebAlone

\* _handleGameInput after an accepted answer: computerMove, the test for a
\* round end and the first part of _handleRoundEnd
_handleGameInput_Computer ==
    /\ web.at = "computerMove"
    /\ computerMove
    /\ LET w == [web EXCEPT !.gaveUp = result'.kind = "round_end"]
       IN  web' = IF ~result'.success /\ state' = ROUND_OVER
                  THEN IF state' = GAME_OVER
                       THEN Respond([w EXCEPT !.phase = "game_over"], "game_won")
                       ELSE [w EXCEPT !.at = "nextRound", !.pending = "round_won"]
                  ELSE IF ComputerMoveThrows(result')
                  THEN Throw(w)
                  ELSE Respond(w, "correct_computer")
    /\ WebAlone

\* the automatic nextRound of _handleChallengeResult and _handleRoundEnd
\* with the _formatStartMessage after it
_handleNextRound ==
    /\ web.at = "nextRound"
    /\ nextRound
    /\ web' = IF StartMessageThrows(result')
              THEN Throw(web)
              ELSE Respond(web, web.pending)
    /\ WebAlone

\* _handleGameOver; yesNo is detectYesNo(input)
_handleGameOver(yesNo) ==
    /\ web.at = "idle"
    /\ web.phase = "game_over"
    /\ web' = IF yesNo = "no"
              THEN Respond(Called, "thanks")
              ELSE Respond([Called EXCEPT !.phase = "difficulty"], "welcome")
    /\ WebOnly

WebNext ==
    \/ \E input \in Inputs : processInput_Blank(input)
    \/ \E detected \in DIFFICULTY \cup {NULL} : _handleDifficultySelection(detected)
    \/ _handleGameInput_Restart
    \/ _handleGameInput_Challenge
    \/ \E input \in Inputs : _handleGameInput_Answer(input)
    \/ _handleGameInput_Computer
    \/ _handleNextRound
    \/ \E yesNo \in {"yes", "no", NULL} : _handleGameOver(yesNo)

SpecWeb == Init /\ [][WebNext]_vars

(***************************************************************************)
(* server.js: the registry of games, the socket handlers and the age-out   *)
(* timers.  The 5 minutes of a timer are the time until its Timeout step.  *)
(***************************************************************************)
\* the record of the handler that ran last
Handled(event, socket, gameId, found) ==
    [event |-> event, socket |-> socket, gameId |-> gameId, found |-> found]

\* games.delete
Delete(games, gameId) == [g \in DOMAIN games \ {gameId} |-> games[g]]

\* games.set
Set(games, gameId, gameData) ==
    [g \in DOMAIN games \cup {gameId} |-> IF g = gameId THEN gameData ELSE games[g]]

\* clearTimeout(gameData.timeoutId) when it is set
Cleared(timers, gameData) ==
    IF gameData.timeoutId # NULL THEN timers \ {gameData.timeoutId} ELSE timers

ServerOnly == UNCHANGED <<engine, peer, focus, calls, search, tmdb, web>>

\* io.on("connection")
Connection(socket) ==
    /\ server.conn[socket] = "none"
    /\ server' = [server EXCEPT !.conn[socket] = "open",
                                !.last = Handled("connection", socket, NULL, FALSE)]
    /\ ServerOnly

\* socket.on("new-game")
OnNewGame(socket) ==
    /\ server.conn[socket] = "open"
    /\ LET old == server.currentGameId[socket]
           cleanup == old # NULL /\ old \in DOMAIN server.games
           games1 == IF cleanup THEN Delete(server.games, old) ELSE server.games
           timers1 == IF cleanup THEN Cleared(server.timers, server.games[old])
                      ELSE server.timers
       IN  \E gameId \in GameIds \ DOMAIN games1 :
              server' = [server EXCEPT
                  !.games = Set(games1, gameId, [socketId |-> socket, timeoutId |-> NULL]),
                  !.timers = timers1,
                  !.currentGameId[socket] = gameId,
                  !.last = Handled("new-game", socket, gameId, TRUE)]
    /\ ServerOnly

\* socket.on("rejoin-game")
OnRejoinGame(socket, gameId) ==
    /\ server.conn[socket] = "open"
    /\ IF gameId \notin DOMAIN server.games
       THEN server' = [server EXCEPT
                          !.last = Handled("rejoin-game", socket, gameId, FALSE)]
       ELSE server' = [server EXCEPT
                          !.timers = Cleared(@, server.games[gameId]),
                          !.games[gameId] = [socketId |-> socket, timeoutId |-> NULL],
                          !.currentGameId[socket] = gameId,
                          !.last = Handled("rejoin-game", socket, gameId, TRUE)]
    /\ ServerOnly

\* socket.on("input"): the game's processInput does not touch the registry
OnInput(socket, gameId) ==
    /\ server.conn[socket] = "open"
    /\ server' = [server EXCEPT
                     !.last = Handled("input", socket, gameId,
                                      gameId \in DOMAIN server.games)]
    /\ ServerOnly

\* socket.on("disconnect")
OnDisconnect(socket) ==
    /\ server.conn[socket] = "open"
    /\ LET gameId == server.currentGameId[socket]
       IN  IF gameId # NULL /\ gameId \in DOMAIN server.games
           THEN server' = [server EXCEPT
                              !.conn[socket] = "closed",
                              !.games[gameId].timeoutId = socket,
                              !.timers = @ \cup {socket},
                              !.last = Handled("disconnect", socket, gameId, TRUE)]
           ELSE server' = [server EXCEPT
                              !.conn[socket] = "closed",
                              !.last = Handled("disconnect", socket, gameId, FALSE)]
    /\ ServerOnly

\* the callback of the timer set by the disconnect of this socket
Timeout(socket) ==
    /\ socket \in server.timers
    /\ LET gameId == server.currentGameId[socket]
       IN  server' = [server EXCEPT
                         !.timers = @ \ {socket},
                         !.games = IF gameId \in DOMAIN @ THEN Delete(@, gameId) ELSE @,
                         !.last = Handled("timeout", socket, gameId,
                                          gameId \in DOMAIN server.games)]
    /\ ServerOnly

ServerNext ==
    \/ \E socket \in Sockets : Connection(socket)
    \/ \E socket \in Sockets : OnNewGame(socket)
    \/ \E socket \in Sockets : \E gameId \in GameIds : OnRejoinGame(socket, gameId)
    \/ \E socket \in Sockets : \E gameId \in GameIds : OnInput(socket, gameId)
    \/ \E socket \in Sockets : OnDisconnect(socket)
    \/ \E socket \in Sockets : Timeout(socket)

\* the engine and the wrapper of each game are left out of this specification
ServerInit == Init /\ difficulty = "medium"

SpecServer == ServerInit /\ [][ServerNext]_vars

(***************************************************************************)
(* C21: store failures propagate.  Whenever a store query made during an   *)
(* engine operation fails, the operation is aborted and the failure        *)
(* reaches the caller; the engine neither swallows the failure nor retries *)
(* with another query.  Stated for the entity search: a query that threw   *)
(* is the last query of the call, and the call throws.                     *)
(***************************************************************************)
C21_StoreFailuresPropagate ==
    \A i \in 1..Len(search.log) :
        search.log[i].threw => (i = Len(search.log) /\ search.out = THROWN)

(***************************************************************************)
(* C22: two-tier resolution.  The resolver tries the fuzzy query variants  *)
(* in list order and returns the results of the first variant that yields  *)
(* at least one match, without trying later variants; the substring        *)
(* fallback is queried only when every fuzzy variant yielded no match, and *)
(* its results are returned as they are.                                   *)
(***************************************************************************)
\* the variants of the observed call
SearchVariants == _toFtsQueries(_normalizeInput(search.query))

\* what the statements return for the observed call
FuzzyRows(q) ==
    IF search.kind = ACTOR
    THEN stmtSearchActors(q, search.limit)
    ELSE stmtSearchMovies(q, search.limit)

SubstringRows(p) ==
    IF search.kind = ACTOR
    THEN stmtSearchActorsLike(p, search.limit)
    ELSE stmtSearchMoviesLike(p, search.limit)

\* the i-th query of the call produced at least one row
Yielded(i) ==
    /\ ~search.log[i].threw
    /\ \E r \in FuzzyRows(search.log[i].q) : Len(r) > 0

C22_TwoTierResolution ==
    (search.kind # NULL /\ _normalizeInput(search.query) # <<>>) =>
        LET n == Len(search.log)
        IN  /\ n >= 1 /\ n <= Len(SearchVariants) + 1
            /\ \A i \in 1..n :
                  IF i <= Len(SearchVariants)
                  THEN /\ search.log[i].tier = "fts"
                       /\ search.log[i].q = SearchVariants[i]
                       /\ Yielded(i) <=> i = n
                  ELSE search.log[i].tier = "like"
            /\ IF n <= Len(SearchVariants)
               THEN search.out \in FuzzyRows(search.log[n].q)
               ELSE /\ search.log[n].q = _normalizeForLike(search.query)
                    /\ IF search.log[n].threw
                       THEN search.out = THROWN
                       ELSE search.out \in SubstringRows(search.log[n].q)

\* the third fuzzy variant was the first to match, and its rows were returned
C22_Witness ==
    /\ Len(search.log) = 3 /\ Len(SearchVariants) > 3
    /\ \A i \in 1..3 : ~search.log[i].threw
    /\ search.out # THROWN /\ Len(search.out) > 0

(***************************************************************************)
(* C23: a query that is empty after trimming resolves to the empty list:   *)
(* the resolver issues no store query and raises no error.                 *)
(***************************************************************************)
C23_EmptyInputResolvesToNothing ==
    (search.kind # NULL /\ _normalizeInput(search.query) = <<>>) =>
        /\ search.log = <<>>
        /\ search.out = <<>>

\* a whitespace-only query has been resolved
C23_Witness ==
    /\ search.kind # NULL
    /\ Len(search.query) > 0
    /\ _normalizeInput(search.query) = <<>>
    /\ search.out = <<>>

(***************************************************************************)
(* C28: order of the fuzzy query variants.  As stated: first the           *)
(* normalized phrase, second the phrase with punctuation stripped (when    *)
(* different), and only after both phrase forms the conjunction of the     *)
(* tokens of length >= 3 of a multi-word input; short tokens are dropped   *)
(* from the conjunction but never from a phrase, and the list has no       *)
(* duplicate query.                                                        *)
(***************************************************************************)
SearchForm == _normalizeInput(search.query)
SearchStripped == StripPunctuation(SearchForm)

\* the tokens of length >= 3 of a form
LongTokens(v) == SelectSeq(SplitWords(v), LongWord)

NoDuplicateQuery ==
    \A i, j \in 1..Len(SearchVariants) :
        SearchVariants[i] = SearchVariants[j] => i = j

IsPhraseForm(q) == q = <<SearchForm>> \/ q = <<SearchStripped>>

C28_PhrasesBeforeConjunction ==
    (search.kind # NULL /\ SearchForm # <<>>) =>
        LET phrases == IF SearchStripped # SearchForm THEN 2 ELSE 1
        IN  /\ Len(SearchVariants) >= phrases
            /\ SearchVariants[1] = <<SearchForm>>
            /\ phrases = 2 => SearchVariants[2] = <<SearchStripped>>
            /\ \A i \in 1..Len(SearchVariants) :
                  ~IsPhraseForm(SearchVariants[i]) =>
                      /\ i > phrases
                      /\ Len(SearchVariants[i]) > 1
                      /\ SearchVariants[i] \in
                            {LongTokens(SearchForm), LongTokens(SearchStripped)}
            /\ NoDuplicateQuery

(***************************************************************************)
(* C28 as the code has it: the forms are taken in turn, the normalized     *)
(* input first and the punctuation-stripped input second (when different); *)
(* each form contributes its phrase and then the query of its tokens of    *)
(* length >= 3 (their conjunction, or the single such token), and a query  *)
(* already in the list is not added again.                                 *)
(***************************************************************************)
\* what the two forms contribute, in order, before duplicates are dropped
FormQueries(v) ==
    IF LongTokens(v) = <<>> THEN << <<v>> >> ELSE << <<v>>, LongTokens(v) >>

RawVariants ==
    IF SearchStripped # SearchForm
    THEN FormQueries(SearchForm) \o FormQueries(SearchStripped)
    ELSE FormQueries(SearchForm)

FirstAt(q) == CHOOSE i \in 1..Len(RawVariants) :
                 RawVariants[i] = q /\ \A j \in 1..(i - 1) : RawVariants[j] # q

C28_FormByForm ==
    (search.kind # NULL /\ SearchForm # <<>>) =>
        /\ {SearchVariants[i] : i \in 1..Len(SearchVariants)}
              = {RawVariants[i] : i \in 1..Len(RawVariants)}
        /\ NoDuplicateQuery
        /\ \A i, j \in 1..Len(SearchVariants) :
              i < j => FirstAt(SearchVariants[i]) < FirstAt(SearchVariants[j])
        /\ \A i \in 1..Len(SearchVariants) :
              Len(SearchVariants[i]) > 1 =>
                  \A k \in 1..Len(SearchVariants[i]) : Len(SearchVariants[i][k]) >= 3

\* a resolved input whose token conjunction precedes its stripped phrase
C28_Witness ==
    /\ search.kind # NULL
    /\ SearchStripped # SearchForm
    /\ Len(SearchVariants) = 4
    /\ Len(SearchVariants[2]) > 1
    /\ SearchVariants[3] = <<SearchStripped>>

(***************************************************************************)
(* C24: the TMDB enrichment is idempotent.  A run on the same file and     *)
(* database as the run before it inserts no rows, so title_principals      *)
(* after two runs equals title_principals after one; a run never inserts a *)
(* row for an (actor, movie) pair that is already linked.                  *)
(***************************************************************************)
Linked(table) == {<<r.tconst, r.nconst>> : r \in table}

C24_EnrichmentIdempotent ==
    [][ /\ (tmdb.ran /\ tmdb'.file = tmdb.file) =>
              /\ tmdb'.table = tmdb.table
              /\ tmdb'.stats.actorsAdded = 0
        /\ \A r \in tmdb'.table \ tmdb.table :
              <<r.tconst, r.nconst>> \notin Linked(tmdb.table)
        /\ Cardinality(Linked(tmdb'.table)) - Cardinality(Linked(tmdb.table))
              = tmdb'.stats.actorsAdded
        /\ tmdb.table \subseteq tmdb'.table ]_vars

\* a second run on a file whose first run had added links found them all
C24_Witness ==
    /\ tmdb.again
    /\ tmdb.stats.actorsAdded = 0
    /\ tmdb.stats.actorsAlreadyLinked >= 3
    /\ \E r \in tmdb.table \ title_principals : r.tconst = tmdb.file[1].imdb_id

(***************************************************************************)
(* C29: in the web wrapper, when the human's move is accepted and the      *)
(* computer then has no continuation, processInput returns a response that *)
(* reports the human's round win, and either the next round has been       *)
(* started (engine Playing, human to move) or, when the human has reached  *)
(* the win threshold, the wrapper is in phase game_over.                   *)
(***************************************************************************)
C29_GiveUpEndsRoundInWrapper ==
    (web.at = "idle" /\ web.gaveUp) =>
        /\ web.output \in {"round_won", "game_won"}
        /\ IF scores[HUMAN] >= RoundsToWin
           THEN web.phase = "game_over"
           ELSE state = PLAYING /\ currentPlayer = HUMAN

(***************************************************************************)
(* C30: session age-out.  After a client socket disconnects, a removal of  *)
(* its game is pending; when the timeout fires the game is removed from    *)
(* the registry; a pending removal goes away only by firing, by a rejoin   *)
(* of that game or with the game itself; and a rejoin before the timeout   *)
(* cancels the pending removal of the game.                                *)
(***************************************************************************)
\* the timers that will remove this game when they fire
PendingRemovals(gameId) ==
    {t \in server.timers : server.currentGameId[t] = gameId}

C30_SessionAgeOut ==
    /\ (server.last.event = "disconnect" /\ server.last.found) =>
          PendingRemovals(server.last.gameId) # {}
    /\ server.last.event = "timeout" =>
          server.last.gameId \notin DOMAIN server.games
    /\ (server.last.event = "rejoin-game" /\ server.last.found) =>
          PendingRemovals(server.last.gameId) = {}

(***************************************************************************)
(* C31: once startGame has been called, the round number is one more than  *)
(* the sum of the scores while the phase is Playing, and equal to the sum  *)
(* of the scores while the phase is RoundOver or GameOver.                 *)
(***************************************************************************)
ScoreSum == scores[HUMAN] + scores[COMPUTER]

C31_RoundNumberCountsRounds ==
    /\ state = PLAYING => roundNumber = ScoreSum + 1
    /\ state \in {ROUND_OVER, GAME_OVER} => roundNumber = ScoreSum

\* a second round is being played after a round that was won
C31_Witness ==
    /\ state = PLAYING
    /\ roundNumber = 2
    /\ ScoreSum = 1
    /\ result.op = "nextRound"

(***************************************************************************)
(* C32: neither score exceeds roundsToWin, at most one score equals it,    *)
(* and 'the phase is GameOver', 'the winner is set' and 'some score equals *)
(* roundsToWin' are equivalent; the winner is the player with that score.  *)
(***************************************************************************)
AtThreshold == {p \in PLAYER : scores[p] = RoundsToWin}

C32_ScoresAndWinner ==
    /\ \A p \in PLAYER : scores[p] <= RoundsToWin
    /\ Cardinality(AtThreshold) <= 1
    /\ (state = GAME_OVER) <=> (winner # NULL)
    /\ (winner # NULL) <=> (AtThreshold # {})
    /\ winner # NULL => AtThreshold = {winner}

\* the computer has won the game by one point
C32_Witness ==
    /\ state = GAME_OVER
    /\ winner = COMPUTER
    /\ scores[COMPUTER] = RoundsToWin
    /\ scores[HUMAN] = RoundsToWin - 1

(***************************************************************************)
(* C33: an engine operation that aborts because a store query throws       *)
(* leaves the session state exactly as it was before the call; the phase   *)
(* is never left in ChallengePending, and an aborted nextRound or          *)
(* startRound has not cleared the used-sets, advanced the round number or  *)
(* changed the phase.                                                      *)
(***************************************************************************)
C33_AbortLeavesSessionUnchanged ==
    [][/\ result'.kind = THROWN => session' = session
       /\ state' # CHALLENGE_PENDING]_vars

(***************************************************************************)
(* C34: between two calls of processInput, wrapper phase 'playing' implies *)
(* that the engine is Playing with the human to move and a current entity  *)
(* set, and, while the wrapper holds an engine, wrapper phase 'game_over'  *)
(* holds exactly when the engine phase is GameOver.                        *)
(***************************************************************************)
C34_WrapperFollowsEngine ==
    web.at = "idle" =>
        /\ web.phase = "playing" =>
              /\ state = PLAYING
              /\ currentPlayer = HUMAN
              /\ currentItem # NULL
        /\ web.phase # "difficulty" =>
              (web.phase = "game_over" <=> state = GAME_OVER)

(***************************************************************************)
(* C35: a game is never removed by an age-out timer while a connected      *)
(* socket is attached to it: when a timer removes a game, the socket that  *)
(* created or last rejoined the game has disconnected.                     *)
(***************************************************************************)
C35_NoAgeOutWhileAttached ==
    [][\A gameId \in DOMAIN server.games :
          (server'.last.event = "timeout" /\ gameId \notin DOMAIN server'.games) =>
              server.conn[server.games[gameId].socketId] = "closed"]_vars

(***************************************************************************)
(* C36: on the human's turn, humanMove accepts the input whenever some     *)
(* candidate of the resolver is credited with the current entity and not   *)
(* yet used this round, and the already-used outcome is returned only when *)
(* every candidate credited with the current entity is in the used-set.    *)
(***************************************************************************)
ConnectedIn(list) == {i \in 1..Len(list) : CreditedToCurrent(list[i])}

UnusedConnectedIn(list) ==
    {i \in ConnectedIn(list) : list[i] \notin UsedOfNextKind}

C36_AcceptsAnyUnusedConnected ==
    (state = PLAYING /\ currentPlayer = HUMAN) =>
        \A input \in Inputs : \A list \in Resolved(input) :
            /\ UnusedConnectedIn(list) # {}
                  => OutcomeFor(list).kind = "valid"
            /\ OutcomeFor(list).kind = "already_used"
                  => UnusedConnectedIn(list) = {}

(***************************************************************************)
(* C37: right after a successful round start the computer's proof search   *)
(* on the starting entity finds a witness under the session's profile, so  *)
(* a challenge issued before any move of the round is never won by the     *)
(* Human.                                                                  *)
(***************************************************************************)
RoundJustStarted ==
    /\ state = PLAYING
    /\ result.kind = "start"
    /\ currentItem = result.startingItem

C37_StartEntityHasProof ==
    /\ [](RoundJustStarted => NULL \notin ProofSearch)
    /\ [][(RoundJustStarted /\ result'.op = "humanChallenge")
             => result'.roundWinner = COMPUTER]_vars

(***************************************************************************)
(* C38: the substring fallback is never run with the match-everything      *)
(* pattern: on the human's turn an input without a letter, digit or        *)
(* underscore resolves to no candidate, and humanMove answers it with the  *)
(* not-found outcome (or rejects it as blank), never with an accepted      *)
(* move.                                                                   *)
(***************************************************************************)
NoWordChar(input) == \A i \in 1..Len(input) : ~IsWord(input[i])

C38_PunctuationResolvesToNothing ==
    (state = PLAYING /\ currentPlayer = HUMAN) =>
        \A input \in Inputs :
            NoWordChar(input) =>
                /\ Resolved(input) = {<<>>}
                /\ \A o \in humanMoveOutcomes(config, input) :
                       o.kind \in {"not_found", "invalid_name"}

(***************************************************************************)
(* C39: while a round is played, on the Human's turn the current entity    *)
(* has the kind of the entity the round began with, on the Computer's turn *)
(* it has the other kind, and every accepted move flips the kind of the    *)
(* current entity and the turn owner.  The entity the round began with is  *)
(* the current one while no move of the round has been accepted, and of    *)
(* the kind opposite to the first accepted move afterwards.                *)
(***************************************************************************)
KindOf(x) == IF x \in Actors THEN ACTOR ELSE MOVIE

RoundStartKind ==
    IF accepted = <<>> THEN currentItemType ELSE Other(KindOf(accepted[1]))

TurnMatchesKind ==
    state = PLAYING =>
        /\ currentPlayer = HUMAN => currentItemType = RoundStartKind
        /\ currentPlayer = COMPUTER => currentItemType = Other(RoundStartKind)

MoveFlipsKindAndTurn ==
    [][MoveAccepted =>
          /\ currentItemType' = Other(currentItemType)
          /\ currentPlayer' # currentPlayer
          /\ {currentPlayer, currentPlayer'} = {HUMAN, COMPUTER}]_vars

C39_KindFollowsTurn == []TurnMatchesKind /\ MoveFlipsKindAndTurn

(***************************************************************************)
(* C40: while a round is played, the used-sets hold one id more than the   *)
(* moves accepted in the round (the starting entity and one id per move),  *)
(* and therefore the number of accepted moves of a round never exceeds the *)
(* number of entities in the store minus one, which bounds every round.    *)
(***************************************************************************)
UsedSize == Cardinality(usedActors) + Cardinality(usedMovies)

Entities == Actors \cup Titles

MovesBounded == state = PLAYING => Len(accepted) <= Cardinality(Entities) - 1

UsedCountsMoves == state = PLAYING => UsedSize = 1 + Len(accepted)

C40_RoundsAreFinite == MovesBounded /\ UsedCountsMoves

====
